---- MODULE Spec2Model ----
(***************************************************************************)
(* A model of the jingo JSON lexer and recursive-descent parser            *)
(* (src/token.go, src/lexer.go, src/parser.go).                            *)
(*                                                                         *)
(* A Go string is modelled as a sequence of one-character strings; the     *)
(* byte 0 is the element NUL.  A string constant of the source whose       *)
(* characters are never inspected (a diagnostic text) is kept as a         *)
(* one-element sequence holding the whole text.  Go's recursion is made    *)
(* explicit by a stack of frames, one frame per active parser function.    *)
(***************************************************************************)
EXTENDS Integers, Sequences, FiniteSets, TLC

(***************************************************************************)
(* Bounds of the model.                                                    *)
(***************************************************************************)
\* longest input made of arbitrary lexemes
MaxShort == 2
\* most nodes (scalars and containers) of a generated well-formed document
MaxNodes == 3
\* most tokens of a well-formed document that is edited into a malformed one
MaxEditToks == 5
\* most bytes written through one stream encoder
MaxWritten == 4
\* goroutines that call Encode on one stream encoder
MaxGoroutines == 2
\* the size of the stream encoder's bufio.Writer (4096 in the code, scaled
\* down)
WriterLen == 3

(***************************************************************************)
(* token.go                                                                *)
(***************************************************************************)
NUL == "NUL"

TokenBraceOpen == "{"
TokenBraceClose == "}"
TokenBracketOpen == "["
TokenBracketClose == "]"
TokenColon == ":"
TokenComma == ","
TokenString == "STRING"
TokenNumber == "NUMBER"
TokenTrue == "TRUE"
TokenFalse == "FALSE"
TokenNull == "NULL"
TokenEOF == "EOF"
TokenIllegal == "ILLEGAL"

Token(type, literal, line, column) ==
    [Type |-> type, Literal |-> literal, Line |-> line, Column |-> column]

\* the zero value of a Token
ZeroToken == [Type |-> "", Literal |-> <<>>, Line |-> 0, Column |-> 0]

(***************************************************************************)
(* lexer.go                                                                *)
(***************************************************************************)
isLetter(ch) ==
    ch \in {"a", "b", "c", "d", "e", "f", "g", "h", "i", "j", "k", "l", "m",
            "n", "o", "p", "q", "r", "s", "t", "u", "v", "w", "x", "y", "z",
            "A", "B", "C", "D", "E", "F", "G", "H", "I", "J", "K", "L", "M",
            "N", "O", "P", "Q", "R", "S", "T", "U", "V", "W", "X", "Y", "Z"}

isNonZeroDigit(ch) == ch \in {"1", "2", "3", "4", "5", "6", "7", "8", "9"}

isDigit(ch) == ch = "0" \/ isNonZeroDigit(ch)

\* input[from:to] of Go, with 0-based from (inclusive) and to (exclusive)
Slice(input, from, to) == SubSeq(input, from + 1, to)

\* readChar that does not count lines
readCharOneLine(l) ==
    LET ch == IF l.readPosition >= Len(l.input)
              THEN NUL
              ELSE l.input[l.readPosition + 1]
    IN [l EXCEPT !.ch = ch,
                 !.position = l.readPosition,
                 !.readPosition = l.readPosition + 1,
                 !.column = IF ch = "\n" THEN 0 ELSE l.column + 1]

readChar(l) ==
    LET ch == IF l.readPosition >= Len(l.input)
              THEN NUL
              ELSE l.input[l.readPosition + 1]
    IN [l EXCEPT !.ch = ch,
                 !.position = l.readPosition,
                 !.readPosition = l.readPosition + 1,
                 !.line = IF ch = "\n" THEN l.line + 1 ELSE l.line,
                 !.column = IF ch = "\n" THEN 0 ELSE l.column + 1]

NewLexer(input) ==
    readChar([input |-> input, position |-> 0, readPosition |-> 0,
              ch |-> NUL, line |-> 1, column |-> 0])

RECURSIVE skipWhitespace(_)
skipWhitespace(l) ==
    IF l.ch \in {" ", "\t", "\n", "\r"} THEN skipWhitespace(readChar(l)) ELSE l

\* the loop  for isDigit(l.ch) { l.readChar() }
RECURSIVE readDigits(_)
readDigits(l) == IF isDigit(l.ch) THEN readDigits(readChar(l)) ELSE l

Lexed(l, t) == [l |-> l, t |-> t]

\* the scanning loop of readString; bad is the early return inside it
RECURSIVE readStringLoop(_)
readStringLoop(l) ==
    IF l.ch # "\"" /\ l.ch # NUL
    THEN IF l.ch = "\\"
         THEN LET l1 == readChar(l)
              IN IF l1.ch = NUL
                 THEN [l |-> l1, bad |-> TRUE]
                 ELSE readStringLoop(readChar(l1))
         ELSE readStringLoop(readChar(l))
    ELSE [l |-> l, bad |-> FALSE]

readString(l, line, column) ==
    LET l1 == readChar(l)
        position == l1.position
        r == readStringLoop(l1)
    IN IF r.bad \/ r.l.ch = NUL
       THEN Lexed(r.l, Token(TokenIllegal, <<"Unterminated string">>, line, column))
       ELSE Lexed(readChar(r.l),
                  Token(TokenString, Slice(r.l.input, position, r.l.position),
                        line, column))

\* readNumber from "Handle exponential notation" to its end
readNumberExponent(l, start, line, column) ==
    IF l.ch = "e" \/ l.ch = "E"
    THEN LET l1 == readChar(l)
             l2 == IF l1.ch = "+" \/ l1.ch = "-" THEN readChar(l1) ELSE l1
         IN IF ~isDigit(l2.ch)
            THEN Lexed(l2, Token(TokenIllegal,
                     <<"Invalid number format: digit expected in exponent">>,
                     line, column))
            ELSE LET l3 == readDigits(l2)
                 IN Lexed(l3, Token(TokenNumber,
                                    Slice(l3.input, start, l3.position),
                                    line, column))
    ELSE Lexed(l, Token(TokenNumber, Slice(l.input, start, l.position),
                        line, column))

\* readNumber from "Handle fractional part" on
readNumberFraction(l, start, line, column) ==
    IF l.ch = "."
    THEN LET l1 == readChar(l)
         IN IF ~isDigit(l1.ch)
            THEN Lexed(l1, Token(TokenIllegal,
                     <<"Invalid number format: digit expected after decimal point">>,
                     line, column))
            ELSE readNumberExponent(readDigits(l1), start, line, column)
    ELSE readNumberExponent(l, start, line, column)

\* readNumber from the integer part on
readNumberInteger(l, start, line, column) ==
    IF l.ch = "0"
    THEN LET l1 == readChar(l)
         IN IF isDigit(l1.ch)
            THEN Lexed(l1, Token(TokenIllegal,
                     <<"Invalid number format: leading zeros not allowed">>,
                     line, column))
            ELSE readNumberFraction(l1, start, line, column)
    ELSE IF isNonZeroDigit(l.ch)
    THEN readNumberFraction(readDigits(readChar(l)), start, line, column)
    ELSE IF l.ch # "."
    THEN Lexed(l, Token(TokenIllegal,
                 <<"Invalid number format: expected digit">>, line, column))
    ELSE readNumberFraction(l, start, line, column)

readNumber(l, line, column) ==
    LET start == l.position
    IN IF l.ch = "-"
       THEN LET l1 == readChar(l)
            IN IF ~isDigit(l1.ch)
               THEN Lexed(l1, Token(TokenIllegal,
                        <<"Invalid number format: digit expected after '-'">>,
                        line, column))
               ELSE readNumberInteger(l1, start, line, column)
       ELSE readNumberInteger(l, start, line, column)

\* the loop of readWord
RECURSIVE readLetters(_)
readLetters(l) == IF isLetter(l.ch) THEN readLetters(readChar(l)) ELSE l

\* readWord returns the lexer after the word and the word read
readWord(l) ==
    LET l1 == readLetters(l)
    IN [l |-> l1, word |-> Slice(l1.input, l.position, l1.position)]

readTrue(l, line, column) ==
    LET w == readWord(l)
    IN IF w.word = <<"t", "r", "u", "e">>
       THEN Lexed(w.l, Token(TokenTrue, <<"t", "r", "u", "e">>, line, column))
       ELSE Lexed(w.l, Token(TokenIllegal, <<"Invalid token">>, line, column))

readFalse(l, line, column) ==
    LET w == readWord(l)
    IN IF w.word = <<"f", "a", "l", "s", "e">>
       THEN Lexed(w.l, Token(TokenFalse, <<"f", "a", "l", "s", "e">>, line, column))
       ELSE Lexed(w.l, Token(TokenIllegal, <<"Invalid token">>, line, column))

readNull(l, line, column) ==
    LET w == readWord(l)
    IN IF w.word = <<"n", "u", "l", "l">>
       THEN Lexed(w.l, Token(TokenNull, <<"n", "u", "l", "l">>, line, column))
       ELSE Lexed(w.l, Token(TokenIllegal, <<"Invalid token">>, line, column))

NextToken(l0) ==
    LET l == skipWhitespace(l0)
        currentLine == l.line
        currentColumn == l.column
        single(type) ==
            Lexed(readChar(l), Token(type, <<l.ch>>, currentLine, currentColumn))
    IN CASE l.ch = "{" -> single(TokenBraceOpen)
         [] l.ch = "}" -> single(TokenBraceClose)
         [] l.ch = "[" -> single(TokenBracketOpen)
         [] l.ch = "]" -> single(TokenBracketClose)
         [] l.ch = ":" -> single(TokenColon)
         [] l.ch = "," -> single(TokenComma)
         [] l.ch = "\"" -> readString(l, currentLine, currentColumn)
         [] isDigit(l.ch) \/ l.ch = "-" -> readNumber(l, currentLine, currentColumn)
         [] l.ch = "t" -> readTrue(l, currentLine, currentColumn)
         [] l.ch = "f" -> readFalse(l, currentLine, currentColumn)
         [] l.ch = "n" -> readNull(l, currentLine, currentColumn)
         [] l.ch = NUL ->
              Lexed(readChar(l), Token(TokenEOF, <<>>, currentLine, currentColumn))
         [] OTHER -> single(TokenIllegal)

(***************************************************************************)
(* The lexer with a streaming mode (the Lexer that NewDecoder creates over *)
(* a reader).  Its definitions carry the prefix S_ where lexer.go has the  *)
(* same name.  The source of a streaming Lexer is a bufio.Reader: the      *)
(* bytes it has buffered and the reads its underlying reader will deliver, *)
(* each with its data and its error ("nil", "EOF" or "error").  A run-time *)
(* panic (a slice bound or index out of range) sets the field fault.       *)
(***************************************************************************)
\* len(l.buffer), and the size of the bufio.Reader's own buffer (4096 in
\* the code, scaled down)
BufferLen == 8

Min(a, b) == IF a < b THEN a ELSE b

IoRead(data, err) == [data |-> data, err |-> err]

\* bufio.NewReader(r): the buffered bytes, the reads of the underlying
\* reader that are to come, and the error of the last one (b.err)
BufioReader(reads) == [buf |-> <<>>, reads |-> reads, err |-> "nil"]

\* bufio.Reader.Read(p) with len(p) = max >= the size of its buffer: the
\* buffered bytes if there are any, else the pending error, else one Read of
\* the underlying reader, straight into p
BufioRead(reader, max) ==
    IF reader.buf # <<>>
    THEN [reader |-> [reader EXCEPT !.buf = SubSeq(@, Min(max, Len(@)) + 1, Len(@))],
          data |-> SubSeq(reader.buf, 1, Min(max, Len(reader.buf))),
          err |-> "nil"]
    ELSE IF reader.err # "nil"
    THEN [reader |-> [reader EXCEPT !.err = "nil"], data |-> <<>>,
          err |-> reader.err]
    ELSE IF reader.reads = <<>>
    THEN [reader |-> reader, data |-> <<>>, err |-> "EOF"]
    ELSE [reader |-> [reader EXCEPT !.reads = Tail(@)],
          data |-> reader.reads[1].data, err |-> reader.reads[1].err]

\* bufio.Reader.fill on an empty buffer: Reads of the underlying reader
\* until one delivers data or an error
RECURSIVE BufioFill(_)
BufioFill(reader) ==
    IF reader.reads = <<>> THEN [reader EXCEPT !.err = "EOF"]
    ELSE IF reader.reads[1].data = <<>> /\ reader.reads[1].err = "nil"
    THEN BufioFill([reader EXCEPT !.reads = Tail(@)])
    ELSE [reader EXCEPT !.buf = reader.reads[1].data,
                        !.err = reader.reads[1].err,
                        !.reads = Tail(@)]

\* the reader after the filling that Peek(1) and ReadByte start with
BufioFilled(reader) ==
    IF reader.buf = <<>> /\ reader.err = "nil" THEN BufioFill(reader) ELSE reader

\* Peek(1) on a filled reader: the first buffered byte, or the error
BufioPeekFilled(reader) ==
    IF reader.buf # <<>>
    THEN [reader |-> reader, b |-> <<reader.buf[1]>>, err |-> "nil"]
    ELSE [reader |-> [reader EXCEPT !.err = "nil"], b |-> <<>>, err |-> reader.err]

BufioPeek(reader) == BufioPeekFilled(BufioFilled(reader))

\* ReadByte on a filled reader
BufioReadByteFilled(reader) ==
    IF reader.buf # <<>>
    THEN [reader |-> [reader EXCEPT !.buf = Tail(@)], err |-> "nil"]
    ELSE [reader |-> [reader EXCEPT !.err = "nil"], err |-> reader.err]

BufioReadByte(reader) == BufioReadByteFilled(BufioFilled(reader))

Fault(l) == [l EXCEPT !.fault = TRUE, !.ch = NUL]

\* readChunk once the reader has been read: r is what Read returned
readChunkRead(l, r) ==
    IF r.err = "error"
    THEN [l EXCEPT !.input = r.data, !.reader = r.reader]
    ELSE [l EXCEPT !.input = r.data, !.reader = r.reader,
                   !.position = 0, !.readPosition = 0]

\* readChunk after  remaining := len(l.input) - l.position
readChunkRemaining(l, remaining) ==
    IF remaining > BufferLen \/ remaining < 0
    THEN Fault(l)
    ELSE IF remaining > 0
    THEN [l EXCEPT !.position = @ + Min(BufferLen - remaining, remaining)]
    ELSE readChunkRead(l, BufioRead(l.reader, BufferLen))

readChunk(l) ==
    IF ~l.isStreaming THEN l
    ELSE readChunkRemaining(l, Len(l.input) - l.position)

\* readChar from  l.ch = l.input[l.readPosition]  on
readCharAdvance(l, ch) ==
    [l EXCEPT !.ch = ch,
              !.position = l.readPosition,
              !.readPosition = l.readPosition + 1,
              !.line = IF ch = "\n" THEN @ + 1 ELSE @,
              !.column = IF ch = "\n" THEN 0 ELSE @ + 1]

\* readChar after its call of readChunk
readCharRefilled(l) ==
    IF l.fault THEN l
    ELSE IF l.readPosition >= Len(l.input)
    THEN [l EXCEPT !.ch = NUL]
    ELSE readCharAdvance(l, l.input[l.readPosition + 1])

S_readChar(l) ==
    IF l.fault THEN l
    ELSE IF l.readPosition >= Len(l.input)
    THEN readCharRefilled(readChunk(l))
    ELSE readCharRefilled(l)

\* NewLexer(input) for a string (streaming = FALSE, source = the string)
\* and for an io.Reader (streaming = TRUE, source = its reads)
S_NewLexer(streaming, source) ==
    LET l == [input |-> IF streaming THEN <<>> ELSE source,
              position |-> 0, readPosition |-> 0, ch |-> NUL,
              line |-> 1, column |-> 0,
              reader |-> BufioReader(IF streaming THEN source ELSE <<>>),
              isStreaming |-> streaming, fault |-> FALSE]
    IN S_readChar(IF streaming THEN readChunk(l) ELSE l)

RECURSIVE S_skipWhitespace(_)
S_skipWhitespace(l) ==
    IF l.ch \in {" ", "\t", "\n", "\r"} THEN S_skipWhitespace(S_readChar(l)) ELSE l

\* the loop  for isDigit(l.ch) { l.readChar() }
RECURSIVE S_readDigits(_)
S_readDigits(l) == IF isDigit(l.ch) THEN S_readDigits(S_readChar(l)) ELSE l

\* the scanning loop of readString, which collects the bytes in result
RECURSIVE S_readStringLoop(_, _)
S_readStringLoop(l, result) ==
    IF l.ch # "\"" /\ l.ch # NUL
    THEN IF l.ch = "\\"
         THEN LET l1 == S_readChar(l)
              IN IF l1.ch = NUL
                 THEN [l |-> l1, bad |-> TRUE, result |-> result]
                 ELSE S_readStringLoop(S_readChar(l1), result \o <<"\\", l1.ch>>)
         ELSE S_readStringLoop(S_readChar(l), Append(result, l.ch))
    ELSE [l |-> l, bad |-> FALSE, result |-> result]

S_readString(l, line, column) ==
    LET r == S_readStringLoop(S_readChar(l), <<>>)
    IN IF r.bad \/ r.l.ch = NUL
       THEN Lexed(r.l, Token(TokenIllegal, <<"Unterminated string">>, line, column))
       ELSE Lexed(S_readChar(r.l), Token(TokenString, r.result, line, column))

\* a token whose literal is l.input[from:to], or the panic of that slice
SliceToken(l, type, from, to, line, column) ==
    IF from > to \/ to > Len(l.input)
    THEN Lexed(Fault(l), ZeroToken)
    ELSE Lexed(l, Token(type, Slice(l.input, from, to), line, column))

\* readNumber from "Handle exponential notation" to its end
S_readNumberExponent(l, start, line, column) ==
    IF l.ch = "e" \/ l.ch = "E"
    THEN LET l1 == S_readChar(l)
             l2 == IF l1.ch = "+" \/ l1.ch = "-" THEN S_readChar(l1) ELSE l1
         IN IF ~isDigit(l2.ch)
            THEN Lexed(l2, Token(TokenIllegal,
                     <<"Invalid number format: digit expected in exponent">>,
                     line, column))
            ELSE LET l3 == S_readDigits(l2)
                 IN SliceToken(l3, TokenNumber, start, l3.position, line, column)
    ELSE SliceToken(l, TokenNumber, start, l.position, line, column)

\* readNumber from "Handle fractional part" on
S_readNumberFraction(l, start, line, column) ==
    IF l.ch = "."
    THEN LET l1 == S_readChar(l)
         IN IF ~isDigit(l1.ch)
            THEN Lexed(l1, Token(TokenIllegal,
                     <<"Invalid number format: digit expected after decimal point">>,
                     line, column))
            ELSE S_readNumberExponent(S_readDigits(l1), start, line, column)
    ELSE S_readNumberExponent(l, start, line, column)

\* readNumber from the integer part on
S_readNumberInteger(l, start, line, column) ==
    IF l.ch = "0"
    THEN LET l1 == S_readChar(l)
         IN IF isDigit(l1.ch)
            THEN Lexed(l1, Token(TokenIllegal,
                     <<"Invalid number format: leading zeros not allowed">>,
                     line, column))
            ELSE S_readNumberFraction(l1, start, line, column)
    ELSE IF isNonZeroDigit(l.ch)
    THEN S_readNumberFraction(S_readDigits(S_readChar(l)), start, line, column)
    ELSE IF l.ch # "."
    THEN Lexed(l, Token(TokenIllegal,
                 <<"Invalid number format: expected digit">>, line, column))
    ELSE S_readNumberFraction(l, start, line, column)

S_readNumber(l, line, column) ==
    LET start == l.position
    IN IF l.ch = "-"
       THEN LET l1 == S_readChar(l)
            IN IF ~isDigit(l1.ch)
               THEN Lexed(l1, Token(TokenIllegal,
                        <<"Invalid number format: digit expected after '-'">>,
                        line, column))
               ELSE S_readNumberInteger(l1, start, line, column)
       ELSE S_readNumberInteger(l, start, line, column)

\* the loop of readWord
RECURSIVE S_readLetters(_)
S_readLetters(l) == IF isLetter(l.ch) THEN S_readLetters(S_readChar(l)) ELSE l

\* readWord returns the lexer after the word and the word read
S_readWord(l) ==
    LET l1 == S_readLetters(l)
    IN IF l.position > l1.position \/ l1.position > Len(l1.input)
       THEN [l |-> Fault(l1), word |-> <<>>]
       ELSE [l |-> l1, word |-> Slice(l1.input, l.position, l1.position)]

\* readTrue, readFalse and readNull: the keyword token if the word is it
S_readKeyword(l, type, keyword, line, column) ==
    LET w == S_readWord(l)
    IN IF w.word = keyword
       THEN Lexed(w.l, Token(type, keyword, line, column))
       ELSE Lexed(w.l, Token(TokenIllegal, <<"Invalid token">>, line, column))

\* a token of the single character l.ch, returned without l.readChar()
S_singleStaying(l, type) == Lexed(l, Token(type, <<l.ch>>, l.line, l.column))

\* a token of the single character l.ch
S_single(l, type) == Lexed(S_readChar(l), Token(type, <<l.ch>>, l.line, l.column))

\* NextToken after skipWhitespace: the switch on l.ch
S_NextTokenSwitch(l) ==
    CASE l.ch = "{" -> S_single(l, TokenBraceOpen)
      [] l.ch = "}" -> S_single(l, TokenBraceClose)
      [] l.ch = "[" -> S_single(l, TokenBracketOpen)
      [] l.ch = "]" -> S_single(l, TokenBracketClose)
      [] l.ch = ":" -> S_single(l, TokenColon)
      [] l.ch = "," -> S_single(l, TokenComma)
      [] l.ch = "\"" -> S_readString(l, l.line, l.column)
      [] isDigit(l.ch) \/ l.ch = "-" -> S_readNumber(l, l.line, l.column)
      [] l.ch = "t" ->
           S_readKeyword(l, TokenTrue, <<"t", "r", "u", "e">>, l.line, l.column)
      [] l.ch = "f" ->
           S_readKeyword(l, TokenFalse, <<"f", "a", "l", "s", "e">>,
                         l.line, l.column)
      [] l.ch = "n" ->
           S_readKeyword(l, TokenNull, <<"n", "u", "l", "l">>, l.line, l.column)
      [] l.ch = NUL ->
           Lexed(S_readChar(l), Token(TokenEOF, <<>>, l.line, l.column))
      [] OTHER -> S_single(l, TokenIllegal)

\* a call that panics returns no token
Returned(r) == IF r.l.fault THEN Lexed(r.l, ZeroToken) ELSE r

S_NextToken(l) == Returned(S_NextTokenSwitch(S_skipWhitespace(l)))

(***************************************************************************)
(* The value tree (the node types that parser.go builds).  Every value is  *)
(* a record tagged by its Go type; the nil interface value is NilValue.    *)
(* Object.Pairs, a Go map, is a function from keys to values.              *)
(***************************************************************************)
NilValue == [type |-> "nil"]

EmptyPairs == [k \in {} |-> NilValue]

\* MapSet that keeps the value a key already has
MapSetKeepFirst(m, k, v) ==
    IF k \in DOMAIN m THEN m
    ELSE [x \in (DOMAIN m) \cup {k} |-> IF x = k THEN v ELSE m[x]]

\* m[k] = v on a Go map
MapSet(m, k, v) ==
    [x \in (DOMAIN m) \cup {k} |-> IF x = k THEN v ELSE m[x]]

Object(token, pairs) == [type |-> "Object", Token |-> token, Pairs |-> pairs]

Array(token, elements) ==
    [type |-> "Array", Token |-> token, Elements |-> elements]

StringLiteral(token) ==
    [type |-> "StringLiteral", Token |-> token, Value |-> token.Literal]

\* a float64 as a decimal: mant * 10^exp, mant without trailing zeros
Float64(mant, exp) == [mant |-> mant, exp |-> exp]

\* &NumberLiteral{Token: token, Value: token.Literal}: the fields the
\* composite literal does not name keep their zero values
NumberLiteral(token) ==
    [type |-> "NumberLiteral", Token |-> token, Value |-> token.Literal,
     Float |-> Float64(0, 0), Int |-> 0, IsInt |-> FALSE, IsValid |-> FALSE]

Boolean(token, value) == [type |-> "Boolean", Token |-> token, Value |-> value]

Null(token) == [type |-> "Null", Token |-> token]

(***************************************************************************)
(* parser.go: the Parser object and its helpers.  A formatted string is    *)
(* kept as its format and its arguments.                                   *)
(***************************************************************************)
Sprintf(format, args) == [format |-> format, args |-> args]

\* a %s and a %d argument of a format
Str(x) == [s |-> x]
Dec(n) == [d |-> n]

\* p.lexer.NextToken(), on the Lexer of lexer.go or on the Lexer with a
\* streaming mode
LexerNextToken(l) ==
    IF "isStreaming" \in DOMAIN l THEN S_NextToken(l) ELSE NextToken(l)

\* nextToken once the Lexer has returned r
nextTokenReturned(q, r) ==
    [q EXCEPT !.currentToken = q.peekToken,
              !.peekToken = r.t,
              !.lexer = r.l]

nextToken(q) == nextTokenReturned(q, LexerNextToken(q.lexer))

NewParser(lexer) ==
    nextToken(nextToken([lexer |-> lexer, currentToken |-> ZeroToken,
                         peekToken |-> ZeroToken, errors |-> <<>>]))

\* addError that takes the position of the lookahead token
addErrorAtPeek(q, format, arg) ==
    [q EXCEPT !.errors =
        Append(@, [Line |-> q.peekToken.Line,
                   Column |-> q.peekToken.Column,
                   msg |-> Sprintf(format, <<Str(arg)>>)])]

\* an entry "Line %d, Column %d: %s" of Parser.errors
addError(q, format, arg) ==
    [q EXCEPT !.errors =
        Append(@, [Line |-> q.currentToken.Line,
                   Column |-> q.currentToken.Column,
                   msg |-> Sprintf(format, <<Str(arg)>>)])]

Errors(q) == q.errors

\* the nil error
NilError == [format |-> "nil", args |-> <<>>]

(***************************************************************************)
(* Inputs.  Lexemes are the pieces arbitrary inputs are made of; documents *)
(* are generated from the grammar as trees and rendered to text.           *)
(***************************************************************************)
RECURSIVE Flatten(_)
Flatten(ss) == IF ss = <<>> THEN <<>> ELSE Head(ss) \o Flatten(Tail(ss))

Lexemes ==
    { <<"{">>, <<"}">>, <<"[">>, <<"]">>, <<":">>, <<",">>,
      <<"\"", "a", "\"">>, <<"\"">>, <<"\\">>,
      <<"0">>, <<"1">>, <<"-">>, <<".">>, <<"e">>,
      <<"t", "r", "u", "e">>, <<" ">>, <<"\n">>, <<NUL>>, <<NUL, "1">> }

RECURSIVE LexemeSeqs(_)
LexemeSeqs(n) ==
    IF n = 0 THEN {<<>>}
    ELSE LexemeSeqs(n - 1)
         \cup {Append(s, x) : s \in LexemeSeqs(n - 1), x \in Lexemes}

ShortInputs == {Flatten(s) : s \in LexemeSeqs(MaxShort)}

\* document trees
TStr(content) == [k |-> "str", lit |-> content]
TNum(text) == [k |-> "num", lit |-> text]
TWord(k) == [k |-> k]
TArr(elems) == [k |-> "arr", elems |-> elems]
TObj(pairs) == [k |-> "obj", pairs |-> pairs]

DocKeys == { <<"a">>, <<"b">> }

DocScalars ==
    { TStr(<<"a">>), TStr(<<"\\", "\"">>),
      TNum(<<"0">>), TNum(<<"-", "1", "2", ".", "5", "e", "+", "1">>),
      TWord("true"), TWord("false"), TWord("null") }

RECURSIVE Trees(_), ElemSeqs(_), PairSeqs(_)
\* the trees with exactly n nodes
Trees(n) ==
    (IF n = 1 THEN DocScalars ELSE {})
    \cup {TArr(es) : es \in ElemSeqs(n - 1)}
    \cup {TObj(ps) : ps \in PairSeqs(n - 1)}
ElemSeqs(n) ==
    IF n = 0 THEN {<<>>}
    ELSE UNION {{<<t>> \o rest : t \in Trees(i), rest \in ElemSeqs(n - i)} :
                i \in 1..n}
PairSeqs(n) ==
    IF n = 0 THEN {<<>>}
    ELSE UNION {{<<(<<key, t>>)>> \o rest :
                    key \in DocKeys, t \in Trees(i), rest \in PairSeqs(n - i)} :
                i \in 1..n}

DocTrees ==
    {t \in UNION {Trees(n) : n \in 1..MaxNodes} : t.k \in {"arr", "obj"}}

\* the lexemes of a document, in order
RECURSIVE RenderToks(_), RenderElems(_), RenderPairs(_)
RenderToks(t) ==
    CASE t.k = "str" -> << <<"\"">> \o t.lit \o <<"\"">> >>
      [] t.k = "num" -> <<t.lit>>
      [] t.k = "true" -> << <<"t", "r", "u", "e">> >>
      [] t.k = "false" -> << <<"f", "a", "l", "s", "e">> >>
      [] t.k = "null" -> << <<"n", "u", "l", "l">> >>
      [] t.k = "arr" -> << <<"[">> >> \o RenderElems(t.elems) \o << <<"]">> >>
      [] t.k = "obj" -> << <<"{">> >> \o RenderPairs(t.pairs) \o << <<"}">> >>
RenderElems(es) ==
    IF es = <<>> THEN <<>>
    ELSE RenderToks(Head(es))
         \o (IF Tail(es) = <<>> THEN <<>>
             ELSE << <<",">> >> \o RenderElems(Tail(es)))
RenderPairs(ps) ==
    IF ps = <<>> THEN <<>>
    ELSE << <<"\"">> \o Head(ps)[1] \o <<"\"">>, <<":">> >>
         \o RenderToks(Head(ps)[2])
         \o (IF Tail(ps) = <<>> THEN <<>>
             ELSE << <<",">> >> \o RenderPairs(Tail(ps)))

Render(t) == Flatten(RenderToks(t))

InsertAt(s, i, x) == SubSeq(s, 1, i) \o <<x>> \o SubSeq(s, i + 1, Len(s))
DeleteAt(s, i) == SubSeq(s, 1, i - 1) \o SubSeq(s, i + 1, Len(s))

EditBase == {RenderToks(t) : t \in {d \in DocTrees : Len(RenderToks(d)) <= MaxEditToks}}

\* a document with one lexeme inserted between two of its tokens
InsertedInputs ==
    UNION {{Flatten(InsertAt(s, i, x)) : i \in 0..Len(s), x \in Lexemes} :
           s \in EditBase}

\* a document with one of its tokens left out
DeletedInputs ==
    UNION {{Flatten(DeleteAt(s, i)) : i \in 1..Len(s)} : s \in EditBase}

DocInputs == {Render(t) : t \in DocTrees}

\* a document followed by whitespace and one more lexeme
TailInputs ==
    {Flatten(s) \o w \o x : s \in EditBase, w \in {<<" ">>, <<"\n">>}, x \in Lexemes}

\* a document with one closing bracket replaced by the other kind
Mismatch(tok) == IF tok = <<"}">> THEN <<"]">> ELSE <<"}">>
MismatchedInputs ==
    UNION {{Flatten([RenderToks(t) EXCEPT ![i] = Mismatch(@)]) :
               i \in {j \in 1..Len(RenderToks(t)) :
                         RenderToks(t)[j] \in {<<"}">>, <<"]">>}}} :
           t \in DocTrees}

\* a document holding an integer just outside the int64 range
OverflowingInts ==
    { <<"9", "2", "2", "3", "3", "7", "2", "0", "3", "6",
        "8", "5", "4", "7", "7", "5", "8", "0", "8">>,
      <<"-", "9", "2", "2", "3", "3", "7", "2", "0", "3", "6",
        "8", "5", "4", "7", "7", "5", "8", "0", "9">> }
OverflowInputs ==
    {<<"[">> \o n \o <<"]">> : n \in OverflowingInts}
    \cup {<<"{", "\"", "a", "\"", ":">> \o n \o <<"}">> : n \in OverflowingInts}

\* inputs whose members fail without consuming a token, the loop going on
\* behind them
LoopInputs ==
    { <<"{", ",", ",", "}">>, <<"[", ",", ",", "]">>,
      <<"{", ",", "\"", "a", "\"", ":", "1", "}">>,
      <<"[", "1", ",", ",", "2", "]">>,
      <<"{", "\"", "a", "\"", ":", "1", ",", ",", "}">>,
      <<"[", "[", ",", "]", ",", "{", ",", "}", "]">>,
      <<"{", "\"", "a", "\"", ",", "\"", "b", "\"", ",">>,
      <<"[", "{", "[", "{", ",", ",">> }

Inputs ==
    ShortInputs \cup DocInputs \cup InsertedInputs \cup DeletedInputs
    \cup TailInputs \cup MismatchedInputs \cup OverflowInputs \cup LoopInputs

(***************************************************************************)
(* The state: the Parser p (with its Lexer p.lexer), the stack of active   *)
(* parser functions, the value the last finished function returned, and    *)
(* what ParseJSON returned.  lex holds the Lexers that are run without a    *)
(* Parser and the tokens they returned, dec the calls made on a decoder.   *)
(***************************************************************************)
VARIABLES p, stack, ret, result, pc, lex, dec, num, api

vars == <<p, stack, ret, result, pc, lex, dec, num, api>>

\* no Lexer is run on its own, and there is no decoder; no number is
\* built on its own, and no call of the encoding package is made
NoLex == [source |-> <<>>]
NoDec == [calls |-> <<>>]
NoNum == [literal |-> <<>>, calls |-> <<>>]
NoApi == [running |-> [op |-> "none"]]

NoRet == [key |-> <<>>, value |-> NilValue, set |-> FALSE]
Ret(key, value) == [key |-> key, value |-> value, set |-> TRUE]

NoResult == [value |-> NilValue, err |-> NilError]

Frame(fn, at) == [fn |-> fn, pc |-> at]

Top == stack[Len(stack)]
Pop == SubSeq(stack, 1, Len(stack) - 1)
At(fn, at) == pc = "running" /\ stack # <<>> /\ Top.fn = fn /\ Top.pc = at

\* lexer := NewLexer(input); parser := NewParser(lexer)
Init ==
    /\ \E input \in Inputs : p = NewParser(NewLexer(input))
    /\ stack = <<>>
    /\ ret = NoRet
    /\ result = NoResult
    /\ pc = "ready"
    /\ lex = NoLex
    /\ dec = NoDec
    /\ num = NoNum
    /\ api = NoApi

\* ParseJSON without the root check: any token starts a value
ParseJSONAnyRoot ==
    /\ pc = "ready"
    /\ stack' = <<Frame("ParseJSON", "afterRoot"), Frame("parseValue", "entry")>>
    /\ pc' = "running"
    /\ UNCHANGED <<p, ret, result>>
    /\ UNCHANGED <<lex, dec, num, api>>

\* ParseJSON that records its root failure with addError and moves on
ParseJSONRecording ==
    /\ pc = "ready"
    /\ IF p.currentToken.Type = TokenBraceOpen
       THEN /\ stack' = <<Frame("ParseJSON", "afterRoot"), Frame("parseObject", "entry")>>
            /\ pc' = "running"
            /\ UNCHANGED <<p, result>>
       ELSE IF p.currentToken.Type = TokenBracketOpen
       THEN /\ stack' = <<Frame("ParseJSON", "afterRoot"), Frame("parseArray", "entry")>>
            /\ pc' = "running"
            /\ UNCHANGED <<p, result>>
       ELSE /\ result' = [value |-> NilValue,
                          err |-> Sprintf("expected { or [, got %s at line %d, column %d",
                                          <<Str(p.currentToken.Type),
                                            Dec(p.currentToken.Line),
                                            Dec(p.currentToken.Column)>>)]
            /\ p' = nextToken(addError(p, "expected { or [, got %s", p.currentToken.Type))
            /\ pc' = "done"
            /\ UNCHANGED stack
    /\ UNCHANGED ret
    /\ UNCHANGED <<lex, dec, num, api>>

\* ParseJSON up to the call that parses the root, or to its first return
ParseJSON ==
    /\ pc = "ready"
    /\ IF p.currentToken.Type = TokenBraceOpen
       THEN /\ stack' = <<Frame("ParseJSON", "afterRoot"), Frame("parseObject", "entry")>>
            /\ pc' = "running"
            /\ UNCHANGED result
       ELSE IF p.currentToken.Type = TokenBracketOpen
       THEN /\ stack' = <<Frame("ParseJSON", "afterRoot"), Frame("parseArray", "entry")>>
            /\ pc' = "running"
            /\ UNCHANGED result
       ELSE /\ result' = [value |-> NilValue,
                          err |-> Sprintf("expected { or [, got %s at line %d, column %d",
                                          <<Str(p.currentToken.Type),
                                            Dec(p.currentToken.Line),
                                            Dec(p.currentToken.Column)>>)]
            /\ pc' = "done"
            /\ UNCHANGED stack
    /\ UNCHANGED <<p, ret>>
    /\ UNCHANGED <<lex, dec, num, api>>

\* ParseJSONReturn without the check that the lookahead is EOF
ParseJSONReturnNoCheck ==
    /\ At("ParseJSON", "afterRoot")
    /\ result' = [value |-> ret.value, err |-> NilError]
    /\ pc' = "done"
    /\ stack' = <<>>
    /\ UNCHANGED <<p, ret>>
    /\ UNCHANGED <<lex, dec, num, api>>

\* ParseJSON after the root has been parsed
ParseJSONReturn ==
    /\ At("ParseJSON", "afterRoot")
    /\ result' = IF p.peekToken.Type # TokenEOF
                 THEN [value |-> NilValue,
                       err |-> Sprintf("unexpected token after main value: %s at line %d, column %d",
                                       <<Str(p.peekToken.Type),
                                         Dec(p.peekToken.Line),
                                         Dec(p.peekToken.Column)>>)]
                 ELSE [value |-> ret.value, err |-> NilError]
    /\ pc' = "done"
    /\ stack' = <<>>
    /\ UNCHANGED <<p, ret>>
    /\ UNCHANGED <<lex, dec, num, api>>

\* parseObject up to its first return or to the call for the first pair
parseObject ==
    /\ At("parseObject", "entry")
    /\ LET object == Object(p.currentToken, EmptyPairs)
       IN IF p.peekToken.Type = TokenBraceClose
          THEN /\ p' = nextToken(p)
               /\ stack' = Pop
               /\ ret' = Ret(<<>>, object)
          ELSE /\ p' = nextToken(p)
               /\ stack' = Pop \o <<[fn |-> "parseObject", pc |-> "afterPair",
                                     object |-> object],
                                    Frame("parseKeyValuePair", "entry")>>
               /\ ret' = NoRet
    /\ UNCHANGED <<result, pc>>
    /\ UNCHANGED <<lex, dec, num, api>>

parseObjectLoopKeepFirst ==
    /\ At("parseObject", "afterPair")
    /\ LET object == [Top.object EXCEPT !.Pairs =
                         IF ret.key \in DOMAIN @ THEN @ ELSE MapSet(@, ret.key, ret.value)]
       IN IF p.peekToken.Type = TokenComma
          THEN /\ p' = nextToken(nextToken(p))
               /\ stack' = Pop \o <<[Top EXCEPT !.object = object],
                                    Frame("parseKeyValuePair", "entry")>>
               /\ ret' = NoRet
          ELSE IF p.peekToken.Type # TokenBraceClose
          THEN /\ p' = addError(p, "expected }, got %s", p.peekToken.Type)
               /\ stack' = Pop
               /\ ret' = Ret(<<>>, NilValue)
          ELSE /\ p' = nextToken(p)
               /\ stack' = Pop
               /\ ret' = Ret(<<>>, object)
    /\ UNCHANGED <<result, pc>>
    /\ UNCHANGED <<lex, dec, num, api>>

\* parseObject from the return of parseKeyValuePair on: the assignment to
\* object.Pairs, then the loop test, the next call or the closing-brace check
parseObjectLoop ==
    /\ At("parseObject", "afterPair")
    /\ LET object == [Top.object EXCEPT !.Pairs = MapSet(@, ret.key, ret.value)]
       IN IF p.peekToken.Type = TokenComma
          THEN /\ p' = nextToken(nextToken(p))
               /\ stack' = Pop \o <<[Top EXCEPT !.object = object],
                                    Frame("parseKeyValuePair", "entry")>>
               /\ ret' = NoRet
          ELSE IF p.peekToken.Type # TokenBraceClose
          THEN /\ p' = addError(p, "expected }, got %s", p.peekToken.Type)
               /\ stack' = Pop
               /\ ret' = Ret(<<>>, NilValue)
          ELSE /\ p' = nextToken(p)
               /\ stack' = Pop
               /\ ret' = Ret(<<>>, object)
    /\ UNCHANGED <<result, pc>>
    /\ UNCHANGED <<lex, dec, num, api>>

parseKeyValuePairSkipping ==
    /\ At("parseKeyValuePair", "entry")
    /\ IF p.currentToken.Type # TokenString
       THEN /\ p' = nextToken(addError(p, "expected string key, got %s", p.currentToken.Type))
            /\ stack' = Pop
            /\ ret' = Ret(<<>>, NilValue)
       ELSE IF p.peekToken.Type # TokenColon
       THEN /\ p' = nextToken(addError(p, "expected :, got %s", p.peekToken.Type))
            /\ stack' = Pop
            /\ ret' = Ret(<<>>, NilValue)
       ELSE /\ p' = nextToken(nextToken(p))
            /\ stack' = Pop \o <<[fn |-> "parseKeyValuePair", pc |-> "afterValue",
                                  key |-> p.currentToken.Literal],
                                 Frame("parseValue", "entry")>>
            /\ ret' = NoRet
    /\ UNCHANGED <<result, pc>>
    /\ UNCHANGED <<lex, dec, num, api>>

\* parseKeyValuePair up to its error returns or to the call of parseValue
parseKeyValuePair ==
    /\ At("parseKeyValuePair", "entry")
    /\ IF p.currentToken.Type # TokenString
       THEN /\ p' = addError(p, "expected string key, got %s", p.currentToken.Type)
            /\ stack' = Pop
            /\ ret' = Ret(<<>>, NilValue)
       ELSE IF p.peekToken.Type # TokenColon
       THEN /\ p' = addError(p, "expected :, got %s", p.peekToken.Type)
            /\ stack' = Pop
            /\ ret' = Ret(<<>>, NilValue)
       ELSE /\ p' = nextToken(nextToken(p))
            /\ stack' = Pop \o <<[fn |-> "parseKeyValuePair", pc |-> "afterValue",
                                  key |-> p.currentToken.Literal],
                                 Frame("parseValue", "entry")>>
            /\ ret' = NoRet
    /\ UNCHANGED <<result, pc>>
    /\ UNCHANGED <<lex, dec, num, api>>

\* parseKeyValuePair: return key, value
parseKeyValuePairReturn ==
    /\ At("parseKeyValuePair", "afterValue")
    /\ stack' = Pop
    /\ ret' = Ret(Top.key, ret.value)
    /\ UNCHANGED <<p, result, pc>>
    /\ UNCHANGED <<lex, dec, num, api>>

\* parseArray up to its first return or to the call for the first element
parseArray ==
    /\ At("parseArray", "entry")
    /\ LET array == Array(p.currentToken, <<>>)
       IN IF p.peekToken.Type = TokenBracketClose
          THEN /\ p' = nextToken(p)
               /\ stack' = Pop
               /\ ret' = Ret(<<>>, array)
          ELSE /\ p' = nextToken(p)
               /\ stack' = Pop \o <<[fn |-> "parseArray", pc |-> "afterValue",
                                     array |-> array],
                                    Frame("parseValue", "entry")>>
               /\ ret' = NoRet
    /\ UNCHANGED <<result, pc>>
    /\ UNCHANGED <<lex, dec, num, api>>

parseArrayLoopSkipping ==
    /\ At("parseArray", "afterValue")
    /\ LET array == [Top.array EXCEPT !.Elements = Append(@, ret.value)]
       IN IF p.peekToken.Type = TokenComma
          THEN /\ p' = nextToken(nextToken(p))
               /\ stack' = Pop \o <<[Top EXCEPT !.array = array],
                                    Frame("parseValue", "entry")>>
               /\ ret' = NoRet
          ELSE IF p.peekToken.Type # TokenBracketClose
          THEN /\ p' = nextToken(addError(p, "expected ], got %s", p.peekToken.Type))
               /\ stack' = Pop
               /\ ret' = Ret(<<>>, NilValue)
          ELSE /\ p' = nextToken(p)
               /\ stack' = Pop
               /\ ret' = Ret(<<>>, array)
    /\ UNCHANGED <<result, pc>>
    /\ UNCHANGED <<lex, dec, num, api>>

\* parseArrayLoop whose loop does not move past the comma
parseArrayLoopStaying ==
    /\ At("parseArray", "afterValue")
    /\ LET array == [Top.array EXCEPT !.Elements = Append(@, ret.value)]
       IN IF p.peekToken.Type = TokenComma
          THEN /\ p' = p
               /\ stack' = Pop \o <<[Top EXCEPT !.array = array],
                                    Frame("parseValue", "entry")>>
               /\ ret' = NoRet
          ELSE IF p.peekToken.Type # TokenBracketClose
          THEN /\ p' = addError(p, "expected ], got %s", p.peekToken.Type)
               /\ stack' = Pop
               /\ ret' = Ret(<<>>, NilValue)
          ELSE /\ p' = nextToken(p)
               /\ stack' = Pop
               /\ ret' = Ret(<<>>, array)
    /\ UNCHANGED <<result, pc>>
    /\ UNCHANGED <<lex, dec, num, api>>

\* parseArray from the return of parseValue on: the append, then the loop
\* test, the next call or the closing-bracket check
parseArrayLoop ==
    /\ At("parseArray", "afterValue")
    /\ LET array == [Top.array EXCEPT !.Elements = Append(@, ret.value)]
       IN IF p.peekToken.Type = TokenComma
          THEN /\ p' = nextToken(nextToken(p))
               /\ stack' = Pop \o <<[Top EXCEPT !.array = array],
                                    Frame("parseValue", "entry")>>
               /\ ret' = NoRet
          ELSE IF p.peekToken.Type # TokenBracketClose
          THEN /\ p' = addError(p, "expected ], got %s", p.peekToken.Type)
               /\ stack' = Pop
               /\ ret' = Ret(<<>>, NilValue)
          ELSE /\ p' = nextToken(p)
               /\ stack' = Pop
               /\ ret' = Ret(<<>>, array)
    /\ UNCHANGED <<result, pc>>
    /\ UNCHANGED <<lex, dec, num, api>>

\* the value parseValue builds from a scalar token
scalarValue(token) ==
    CASE token.Type = TokenString -> StringLiteral(token)
      [] token.Type = TokenNumber -> NumberLiteral(token)
      [] token.Type = TokenTrue -> Boolean(token, TRUE)
      [] token.Type = TokenFalse -> Boolean(token, FALSE)
      [] token.Type = TokenNull -> Null(token)

\* parseValue; "return p.parseObject()" and "return p.parseArray()" hand
\* the frame over to the callee, whose result is parseValue's result
parseValue ==
    /\ At("parseValue", "entry")
    /\ IF p.currentToken.Type \in {TokenString, TokenNumber, TokenTrue,
                                   TokenFalse, TokenNull}
       THEN /\ stack' = Pop
            /\ ret' = Ret(<<>>, scalarValue(p.currentToken))
            /\ UNCHANGED p
       ELSE IF p.currentToken.Type = TokenBraceOpen
       THEN /\ stack' = Pop \o <<Frame("parseObject", "entry")>>
            /\ ret' = NoRet
            /\ UNCHANGED p
       ELSE IF p.currentToken.Type = TokenBracketOpen
       THEN /\ stack' = Pop \o <<Frame("parseArray", "entry")>>
            /\ ret' = NoRet
            /\ UNCHANGED p
       ELSE /\ p' = addError(p, "unexpected token %s", p.currentToken.Type)
            /\ stack' = Pop
            /\ ret' = Ret(<<>>, NilValue)
    /\ UNCHANGED <<result, pc>>
    /\ UNCHANGED <<lex, dec, num, api>>

Next ==
    \/ ParseJSON
    \/ ParseJSONReturn
    \/ parseObject
    \/ parseObjectLoop
    \/ parseKeyValuePair
    \/ parseKeyValuePairReturn
    \/ parseArray
    \/ parseArrayLoop
    \/ parseValue

Spec == Init /\ [][Next]_vars

(***************************************************************************)
(* Lexers run on their own: over the same bytes, the Lexer of lexer.go     *)
(* (plain), the Lexer with a streaming mode created over the string        *)
(* (fixed) and created over a reader that delivers the bytes in reads      *)
(* (streamed).  Each action is one NextToken call on one of them; the      *)
(* calls are made in turn, so the Lexers are compared call for call.       *)
(***************************************************************************)
\* the texts the Lexers are run on
\* documents written on several lines
LineInputs ==
    { <<"[", "\n", "1", "]">>,
      <<"[", "\n", "1", ",", "\n", "\"", "a", "\"", "]">>,
      <<"{", "\n", " ", "\"", "a", "\"", ":", "\n", "t", "r", "u", "e", "}", "\n">> }
LexInputs == ShortInputs \cup DocInputs \cup LineInputs

\* a text cut into reads of n bytes
RECURSIVE Chunks(_, _)
Chunks(input, n) ==
    IF input = <<>> THEN <<>>
    ELSE <<IoRead(SubSeq(input, 1, Min(n, Len(input))), "nil")>>
         \o Chunks(SubSeq(input, Min(n, Len(input)) + 1, Len(input)), n)

\* a read that fails, without data and with a byte of data
ErrorReads == {IoRead(<<>>, "error"), IoRead(<<"]">>, "error")}

\* what a reader delivers: the text in full reads or in reads of one byte
\* and then the end of the input, or the text in full reads and then a
\* failing read
Sources ==
    UNION {{Chunks(input, n) : n \in {1, BufferLen}}
           \cup {Chunks(input, BufferLen) \o <<e>> : e \in ErrorReads} :
           input \in LexInputs}

\* the bytes of a source
RECURSIVE Bytes(_)
Bytes(source) ==
    IF source = <<>> THEN <<>> ELSE source[1].data \o Bytes(Tail(source))

HasError(source) == \E i \in 1..Len(source) : source[i].err = "error"

\* the NextToken calls made on each Lexer: at most one per byte and per
\* read, and two at the end of the input
CallLimit(source) == Len(Bytes(source)) + Len(source) + 2

LexInit ==
    /\ \E source \in Sources :
          lex = [source |-> source,
                 plain |-> NewLexer(Bytes(source)),
                 fixed |-> S_NewLexer(FALSE, Bytes(source)),
                 streamed |-> S_NewLexer(TRUE, source),
                 turn |-> "plain",
                 plainCalls |-> <<>>,
                 fixedToks |-> <<>>,
                 streamedToks |-> <<>>]
    /\ p = NewParser(NewLexer(<<>>))
    /\ stack = <<>>
    /\ ret = NoRet
    /\ result = NoResult
    /\ pc = "ready"
    /\ dec = NoDec
    /\ num = NoNum
    /\ api = NoApi

\* tok := l.NextToken() on the Lexer of lexer.go
PlainNextToken ==
    /\ lex.turn = "plain"
    /\ Len(lex.plainCalls) < CallLimit(lex.source)
    /\ LET r == NextToken(lex.plain)
       IN lex' = [lex EXCEPT !.plain = r.l, !.turn = "fixed",
                             !.plainCalls = Append(@, [l |-> lex.plain, t |-> r.t])]
    /\ UNCHANGED <<p, stack, ret, result, pc, dec, num, api>>

\* tok := l.NextToken() on the Lexer created over the string
FixedNextToken ==
    /\ lex.turn = "fixed"
    /\ ~lex.fixed.fault
    /\ LET r == S_NextToken(lex.fixed)
       IN lex' = [lex EXCEPT !.fixed = r.l, !.turn = "streamed",
                             !.fixedToks = Append(@, r.t)]
    /\ UNCHANGED <<p, stack, ret, result, pc, dec, num, api>>

\* tok := l.NextToken() on the Lexer created over the reader
StreamedNextToken ==
    /\ lex.turn = "streamed"
    /\ ~lex.streamed.fault
    /\ LET r == S_NextToken(lex.streamed)
       IN lex' = [lex EXCEPT !.streamed = r.l, !.turn = "plain",
                             !.streamedToks = Append(@, r.t)]
    /\ UNCHANGED <<p, stack, ret, result, pc, dec, num, api>>

LexNext ==
    \/ PlainNextToken
    \/ FixedNextToken
    \/ StreamedNextToken

LexSpec == LexInit /\ [][LexNext]_vars

(***************************************************************************)
(* The stream decoder: NewDecoder creates a Lexer with a streaming mode    *)
(* and a Parser over one bufio.Reader, which More reads too.  Decode is    *)
(* ParseJSON on that Parser followed by unmarshalValue into a target of    *)
(* type interface{}; dec.calls lists what the calls returned.              *)
(***************************************************************************)
\* the Decode and More calls made on a decoder
MaxCalls == 3

\* the Go values unmarshalValue stores in an interface{}
GoMap(m) == [map |-> m]
GoSlice(s) == [slice |-> s]
GoString(s) == [string |-> s]
GoInt64(n) == [int64 |-> n]
GoFloat64(f) == [float64 |-> f]
GoBool(b) == [bool |-> b]
GoNil == [nil |-> TRUE]

\* unmarshalValue(v, rv) returns nil
RECURSIVE Unmarshals(_)
Unmarshals(v) ==
    CASE v.type = "nil" -> FALSE
      [] v.type = "Object" -> \A k \in DOMAIN v.Pairs : Unmarshals(v.Pairs[k])
      [] v.type = "Array" ->
           \A i \in 1..Len(v.Elements) : Unmarshals(v.Elements[i])
      [] OTHER -> TRUE

\* what unmarshalValue(v, rv) sets rv to when it returns nil
RECURSIVE Unmarshaled(_)
Unmarshaled(v) ==
    CASE v.type = "Object" ->
           GoMap([k \in DOMAIN v.Pairs |-> Unmarshaled(v.Pairs[k])])
      [] v.type = "Array" ->
           GoSlice([i \in 1..Len(v.Elements) |-> Unmarshaled(v.Elements[i])])
      [] v.type = "StringLiteral" -> GoString(v.Value)
      [] v.type = "NumberLiteral" ->
           IF v.IsInt THEN GoInt64(v.Int) ELSE GoFloat64(v.Float)
      [] v.type = "Boolean" -> GoBool(v.Value)
      [] v.type = "Null" -> GoNil

\* the errors unmarshalValue(v, rv) can return when it fails: of an array
\* the error of the first element that fails, of an object the error of
\* any pair that fails (the order of a range over a map is not fixed)
RECURSIVE UnmarshalErrors(_)
UnmarshalErrors(v) ==
    CASE v.type = "nil" -> {Sprintf("cannot unmarshal nil value", <<>>)}
      [] v.type = "Object" ->
           UNION {{Sprintf("map key %q: %v", <<Str(k), Str(e)>>) :
                      e \in UnmarshalErrors(v.Pairs[k])} :
                  k \in {x \in DOMAIN v.Pairs : ~Unmarshals(v.Pairs[x])}}
      [] v.type = "Array" ->
           {Sprintf("index %d: %v",
                    <<Dec((CHOOSE i \in 1..Len(v.Elements) :
                             /\ ~Unmarshals(v.Elements[i])
                             /\ \A j \in 1..(i - 1) : Unmarshals(v.Elements[j])) - 1),
                      Str(e)>>) :
               e \in UnmarshalErrors(
                        v.Elements[CHOOSE i \in 1..Len(v.Elements) :
                                      /\ ~Unmarshals(v.Elements[i])
                                      /\ \A j \in 1..(i - 1) :
                                            Unmarshals(v.Elements[j])])}
      [] OTHER -> {}

\* NewJSONError(code, msg).WithCause(err)
JSONError(code, msg, cause) == [Code |-> code, Message |-> msg, Cause |-> cause]

\* what a Decode call and a More call returned
Decoded(err, stored, v) ==
    [op |-> "Decode", err |-> err, stored |-> stored, v |-> v]
MoreReturned(b) == [op |-> "More", more |-> b]

\* the first documents of a stream, and the documents that follow one
FirstDocs == {t \in DocTrees : Len(RenderToks(t)) <= MaxEditToks}
SecondDocs ==
    {TArr(<<>>), TObj(<<>>), TArr(<<TWord("true")>>),
     TObj(<< <<(<<"a">>), TStr(<<"a">>)>> >>)}

\* the streams: one document, or two with nothing, a space or a newline
\* between them
Streams ==
    {[text |-> Render(t), docs |-> <<t>>] : t \in FirstDocs}
    \cup {[text |-> Render(d[1]) \o d[3] \o Render(d[2]), docs |-> <<d[1], d[2]>>] :
             d \in FirstDocs \X SecondDocs \X {<<>>, <<" ">>, <<"\n">>}}

\* the streams with the reads that deliver them: full reads, or one
\* document a read
DecoderSources ==
    {[stream |-> s, source |-> Chunks(s.text, BufferLen)] : s \in Streams}
    \cup {[stream |-> s,
           source |-> <<IoRead(Render(s.docs[1]), "nil"),
                        IoRead(SubSeq(s.text, Len(Render(s.docs[1])) + 1, Len(s.text)),
                               "nil")>>] :
             s \in {x \in Streams : /\ Len(x.docs) = 2
                                    /\ Len(Render(x.docs[1])) <= BufferLen
                                    /\ Len(x.text) - Len(Render(x.docs[1])) <= BufferLen}}

\* decoder, err := NewDecoder(r)
DecInit ==
    /\ \E s \in DecoderSources :
          /\ p = NewParser(S_NewLexer(TRUE, s.source))
          /\ dec = [calls |-> <<>>, stream |-> s.stream, source |-> s.source]
    /\ stack = <<>>
    /\ ret = NoRet
    /\ result = NoResult
    /\ pc = "ready"
    /\ lex = NoLex
    /\ num = NoNum
    /\ api = NoApi

\* Decode up to the return of ParseJSON
Decode ==
    /\ Len(dec.calls) < MaxCalls
    /\ ParseJSON

\* Decode after ParseJSON has returned
DecodeReturn ==
    /\ pc = "done"
    /\ IF result.err # NilError
       THEN dec' = [dec EXCEPT !.calls =
                       Append(@, Decoded(JSONError("invalid_json",
                                                   "failed to parse JSON stream",
                                                   result.err),
                                         FALSE, GoNil))]
       ELSE IF Unmarshals(result.value)
       THEN dec' = [dec EXCEPT !.calls =
                       Append(@, Decoded(NilError, TRUE, Unmarshaled(result.value)))]
       ELSE \E e \in UnmarshalErrors(result.value) :
               dec' = [dec EXCEPT !.calls = Append(@, Decoded(e, FALSE, GoNil))]
    /\ pc' = "ready"
    /\ result' = NoResult
    /\ ret' = NoRet
    /\ UNCHANGED <<p, stack, lex, num, api>>

\* the loop of More that skips whitespace: pk is what Peek(1) returned
RECURSIVE MoreLoop(_)
MoreLoop(pk) ==
    IF pk.err # "nil" THEN [reader |-> pk.reader, more |-> FALSE]
    ELSE IF Len(pk.b) > 0 /\ pk.b[1] \in {" ", "\t", "\n", "\r"}
    THEN IF BufioReadByte(pk.reader).err # "nil"
         THEN [reader |-> BufioReadByte(pk.reader).reader, more |-> FALSE]
         ELSE MoreLoop(BufioPeek(BufioReadByte(pk.reader).reader))
    ELSE [reader |-> pk.reader, more |-> Len(pk.b) > 0]

\* More
More ==
    /\ pc = "ready"
    /\ Len(dec.calls) < MaxCalls
    /\ p' = [p EXCEPT !.lexer.reader = MoreLoop(BufioPeek(p.lexer.reader)).reader]
    /\ dec' = [dec EXCEPT !.calls =
                  Append(@, MoreReturned(MoreLoop(BufioPeek(p.lexer.reader)).more))]
    /\ UNCHANGED <<stack, ret, result, pc, lex, num, api>>

DecNext ==
    \/ Decode
    \/ ParseJSONReturn
    \/ parseObject
    \/ parseObjectLoop
    \/ parseKeyValuePair
    \/ parseKeyValuePairReturn
    \/ parseArray
    \/ parseArrayLoop
    \/ parseValue
    \/ DecodeReturn
    \/ More

DecSpec == DecInit /\ [][DecNext]_vars

(***************************************************************************)
(* Definitions the properties are stated with.                             *)
(***************************************************************************)
Input == p.lexer.input

Done == pc = "done"

Failed == result.err # NilError

\* every token NextToken yields on the input, up to the first EOF token
RECURSIVE TokensFrom(_)
TokensFrom(l) ==
    LET r == NextToken(l)
    IN IF r.t.Type = TokenEOF THEN <<>> ELSE <<r.t>> \o TokensFrom(r.l)

AllTokens(input) == TokensFrom(NewLexer(input))

Kinds(ts) == [i \in 1..Len(ts) |-> ts[i].Type]

FirstToken(input) == NextToken(NewLexer(input)).t

\* the grammar  JSON := Object | Array ... of the specification, as a
\* recognizer over token kinds: *End(ks, i) is the index after the phrase
\* that starts at i, or 0 when there is none
KindAt(ks, i) == IF i <= Len(ks) THEN ks[i] ELSE TokenEOF

RECURSIVE ValueEnd(_, _), ElemsEnd(_, _), PairsEnd(_, _)
ValueEnd(ks, i) ==
    LET k == KindAt(ks, i)
    IN IF k \in {TokenString, TokenNumber, TokenTrue, TokenFalse, TokenNull}
       THEN i + 1
       ELSE IF k = TokenBracketOpen
       THEN IF KindAt(ks, i + 1) = TokenBracketClose THEN i + 2
            ELSE ElemsEnd(ks, i + 1)
       ELSE IF k = TokenBraceOpen
       THEN IF KindAt(ks, i + 1) = TokenBraceClose THEN i + 2
            ELSE PairsEnd(ks, i + 1)
       ELSE 0
ElemsEnd(ks, i) ==
    LET j == ValueEnd(ks, i)
    IN IF j = 0 THEN 0
       ELSE IF KindAt(ks, j) = TokenComma THEN ElemsEnd(ks, j + 1)
       ELSE IF KindAt(ks, j) = TokenBracketClose THEN j + 1
       ELSE 0
PairsEnd(ks, i) ==
    IF KindAt(ks, i) = TokenString /\ KindAt(ks, i + 1) = TokenColon
    THEN LET j == ValueEnd(ks, i + 2)
         IN IF j = 0 THEN 0
            ELSE IF KindAt(ks, j) = TokenComma THEN PairsEnd(ks, j + 1)
            ELSE IF KindAt(ks, j) = TokenBraceClose THEN j + 1
            ELSE 0
    ELSE 0

Derivable(ks) ==
    /\ KindAt(ks, 1) \in {TokenBraceOpen, TokenBracketOpen}
    /\ ValueEnd(ks, 1) = Len(ks) + 1

\* a parsed value without the tokens it keeps
RECURSIVE AbsValue(_)
AbsValue(v) ==
    CASE v.type = "Object" ->
           [type |-> "Object",
            Pairs |-> [k \in DOMAIN v.Pairs |-> AbsValue(v.Pairs[k])]]
      [] v.type = "Array" ->
           [type |-> "Array",
            Elements |-> [i \in 1..Len(v.Elements) |-> AbsValue(v.Elements[i])]]
      [] v.type \in {"StringLiteral", "NumberLiteral", "Boolean"} ->
           [type |-> v.type, Value |-> v.Value]
      [] OTHER -> [type |-> v.type]

\* the value a document tree stands for: string and number scalars by
\* their source text, a repeated key by its last occurrence
RECURSIVE TreeValue(_), TreePairs(_, _)
TreeValue(t) ==
    CASE t.k = "str" -> [type |-> "StringLiteral", Value |-> t.lit]
      [] t.k = "num" -> [type |-> "NumberLiteral", Value |-> t.lit]
      [] t.k = "true" -> [type |-> "Boolean", Value |-> TRUE]
      [] t.k = "false" -> [type |-> "Boolean", Value |-> FALSE]
      [] t.k = "null" -> [type |-> "Null"]
      [] t.k = "arr" ->
           [type |-> "Array",
            Elements |-> [i \in 1..Len(t.elems) |-> TreeValue(t.elems[i])]]
      [] t.k = "obj" ->
           [type |-> "Object", Pairs |-> TreePairs(t.pairs, Len(t.pairs))]
TreePairs(ps, n) ==
    [key \in {ps[i][1] : i \in 1..n} |->
        TreeValue(ps[CHOOSE i \in 1..n :
                        /\ ps[i][1] = key
                        /\ \A j \in (i + 1)..n : ps[j][1] # key][2])]

\* the well-formed documents among the inputs: the rendered trees, and the
\* smaller ones with whitespace between two tokens
WellFormedDocs ==
    {[input |-> Render(t), tree |-> t] : t \in DocTrees}
    \cup UNION {{[input |-> Flatten(InsertAt(RenderToks(t), i, w)), tree |-> t] :
                    i \in 0..Len(RenderToks(t)), w \in {<<" ">>, <<"\n">>}} :
                t \in {d \in DocTrees : Len(RenderToks(d)) <= MaxEditToks}}

WellFormedInputs == {d.input : d \in WellFormedDocs}

DocOf(input) == (CHOOSE d \in WellFormedDocs : d.input = input).tree

\* a diagnostic (a returned error or an Errors() entry's message) shows text
Mentions(e, text) ==
    \/ e.format = text
    \/ \E i \in 1..Len(e.args) : e.args[i] = Str(text)

ReportsText(text) ==
    \/ Mentions(result.err, text)
    \/ \E i \in 1..Len(Errors(p)) : Mentions(Errors(p)[i].msg, text)

IsWhitespace(ch) == ch \in {" ", "\t", "\n", "\r"}

(***************************************************************************)
(* The claims.                                                             *)
(***************************************************************************)

\* C1: after ParseJSON returns, a nil error implies that Errors() is empty
\* (ParseJSON returns a non-nil error whenever an error was recorded).
C1_NilErrorMeansNoErrors ==
    Done /\ result.err = NilError => Errors(p) = <<>>

\* C2: if ParseJSON returns a nil error, the value it returns is a non-nil
\* Object or Array; nil is never returned together with a nil error.
C2_NilErrorMeansContainer ==
    Done /\ result.err = NilError => result.value.type \in {"Object", "Array"}

\* C3: if ParseJSON returns a nil error, the token sequence of the input up
\* to EOF is derivable from the grammar JSON := Object | Array.
C3_AcceptsOnlyGrammar ==
    Done /\ result.err = NilError => Derivable(Kinds(AllTokens(Input)))

RECURSIVE TokensUntil(_, _)
TokensUntil(l, stop) ==
    IF l = stop THEN <<>>
    ELSE LET r == NextToken(l) IN <<r.t>> \o TokensUntil(r.l, stop)

Consumed == TokensUntil(NewLexer(Input), p.lexer)

\* C5: whenever a token that the parser consumed is ILLEGAL, ParseJSON
\* returns a non-nil error.
C5_IllegalTokenFails ==
    Done /\ (\E i \in 1..Len(Consumed) : Consumed[i].Type = TokenIllegal)
        => Failed

\* C6: if the first token of the input is neither '{' nor '[', ParseJSON
\* returns a nil value and a non-nil error that names the kind of that token.
C6_RootMustBeContainer ==
    Done /\ FirstToken(Input).Type \notin {TokenBraceOpen, TokenBracketOpen} =>
        /\ result.value = NilValue
        /\ Failed
        /\ result.err.format = "expected { or [, got %s at line %d, column %d"
        /\ result.err.args[1] = Str(FirstToken(Input).Type)

\* C6 happens: a bare number as the root has been rejected.
C6_Witness ==
    /\ Done
    /\ Input = <<"0">>
    /\ result.value = NilValue
    /\ result.err.args[1] = Str(TokenNumber)

\* the inputs that start with a well-formed document: the length of that
\* document (a well-formed document is no proper prefix of another one)
RootLen(input) ==
    CHOOSE n \in 0..Len(input) :
        \/ n > 0 /\ SubSeq(input, 1, n) \in DocInputs
        \/ n = 0 /\ \A m \in 1..Len(input) : SubSeq(input, 1, m) \notin DocInputs

AfterRoot(input) == SubSeq(input, RootLen(input) + 1, Len(input))

RECURSIVE SkipWs(_)
SkipWs(chars) ==
    IF chars # <<>> /\ IsWhitespace(Head(chars)) THEN SkipWs(Tail(chars)) ELSE chars

AfterMainValue == "unexpected token after main value: %s at line %d, column %d"

\* C7: if anything other than whitespace follows the root value's closing
\* bracket, ParseJSON returns the error 'unexpected token after main value'
\* (and so never succeeds on such an input).
C7_TrailingContentFails ==
    Done /\ RootLen(Input) > 0 /\ SkipWs(AfterRoot(Input)) # <<>> =>
        result.err.format = AfterMainValue

\* C7, amended: if the first byte after the root value's closing bracket
\* that is not whitespace is not a NUL byte, ParseJSON returns the error
\* 'unexpected token after main value'; if it is a NUL byte, or there is no
\* such byte, ParseJSON returns the root value and a nil error.
C7_TrailingContentUpToNul ==
    Done /\ RootLen(Input) > 0 =>
        LET rest == SkipWs(AfterRoot(Input))
        IN IF rest # <<>> /\ Head(rest) # NUL
           THEN result.value = NilValue /\ result.err.format = AfterMainValue
           ELSE result.err = NilError /\ result.value.type \in {"Object", "Array"}

\* C7 happens: a document followed by whitespace and a digit has been rejected
\* with the trailing-token error.
C7_Witness ==
    /\ Done
    /\ RootLen(Input) > 0
    /\ AfterRoot(Input) = <<" ", "1">>
    /\ result.err.format = AfterMainValue
    /\ result.err.args[1] = Str(TokenNumber)

UnterminatedString == "Unterminated string"

\* C8: if a string is opened and the input ends before its closing quote,
\* ParseJSON fails and the diagnostic it reports is 'Unterminated string'.
C8_UnterminatedStringReported ==
    Done /\ (\E i \in 1..Len(AllTokens(Input)) :
                /\ AllTokens(Input)[i].Type = TokenIllegal
                /\ AllTokens(Input)[i].Literal = <<UnterminatedString>>)
        => Failed /\ ReportsText(UnterminatedString)

LeadingZeros == "Invalid number format: leading zeros not allowed"

\* C9: for a document containing a number whose integer part is '0' followed
\* by another digit, ParseJSON fails and the diagnostic it reports (the
\* returned error or an Errors() entry) mentions leading zeros.
C9_LeadingZerosReported ==
    /\ Done
    /\ FirstToken(Input).Type \in {TokenBraceOpen, TokenBracketOpen}
    /\ \E i \in 1..Len(AllTokens(Input)) :
          /\ AllTokens(Input)[i].Type = TokenIllegal
          /\ AllTokens(Input)[i].Literal = <<LeadingZeros>>
    => Failed /\ ReportsText(LeadingZeros)

\* the object documents with a comma put before the closing brace
TrailingCommaInputs ==
    {Flatten(InsertAt(s, Len(s) - 1, <<",">>)) :
        s \in {b \in EditBase : Len(b) > 2 /\ b[1] = <<"{">>}}

\* C10: in an object, a comma followed by '}' instead of another pair makes
\* ParseJSON return a non-nil error, and Errors() contains an entry with
\* 'unexpected token ,'.
C10_TrailingCommaReported ==
    Done /\ Input \in TrailingCommaInputs =>
        /\ Failed
        /\ \E i \in 1..Len(Errors(p)) :
              Errors(p)[i].msg = Sprintf("unexpected token %s", <<Str(TokenComma)>>)

DigitChars == <<"0", "1", "2", "3", "4", "5", "6", "7", "8", "9">>

DigitValue(ch) == CHOOSE n \in 0..9 : DigitChars[n + 1] = ch

\* the number a sequence of digits writes
RECURSIVE DigitsValue(_)
DigitsValue(ds) ==
    IF ds = <<>> THEN 0
    ELSE 10 * DigitsValue(SubSeq(ds, 1, Len(ds) - 1)) + DigitValue(ds[Len(ds)])

\* the longest prefix of digits of a text
RECURSIVE DigitPrefix(_)
DigitPrefix(s) ==
    IF s # <<>> /\ isDigit(s[1]) THEN <<s[1]>> \o DigitPrefix(Tail(s)) ELSE <<>>

Drop(s, n) == SubSeq(s, n + 1, Len(s))

\* mant * 10^exp without trailing zeros in mant
RECURSIVE Normalized(_, _)
Normalized(mant, exp) ==
    IF mant = 0 THEN [mant |-> 0, exp |-> 0]
    ELSE IF mant % 10 = 0 THEN Normalized(mant \div 10, exp + 1)
    ELSE [mant |-> mant, exp |-> exp]

IsIntegerText(lit) == \A i \in 1..Len(lit) : lit[i] \notin {".", "e", "E"}

\* the value of a JSON number text  -? digits (. digits)? ([eE] [+-]? digits)?
DecimalValue(lit) ==
    LET neg == lit # <<>> /\ lit[1] = "-"
        s1 == IF neg THEN Tail(lit) ELSE lit
        int == DigitPrefix(s1)
        s2 == Drop(s1, Len(int))
        frac == IF s2 # <<>> /\ s2[1] = "." THEN DigitPrefix(Tail(s2)) ELSE <<>>
        s3 == IF s2 # <<>> /\ s2[1] = "." THEN Drop(s2, Len(frac) + 1) ELSE s2
        s4 == IF s3 # <<>> THEN Tail(s3) ELSE <<>>
        eneg == s4 # <<>> /\ s4[1] = "-"
        s5 == IF s4 # <<>> /\ s4[1] \in {"+", "-"} THEN Tail(s4) ELSE s4
        e == DigitsValue(DigitPrefix(s5))
        m == DigitsValue(int \o frac)
    IN Normalized(IF neg THEN 0 - m ELSE m,
                  (IF eneg THEN 0 - e ELSE e) - Len(frac))

\* the integer an integer text writes
IntegerValue(lit) ==
    IF lit[1] = "-" THEN 0 - DigitsValue(Tail(lit)) ELSE DigitsValue(lit)

\* the Number nodes of a value tree
RECURSIVE NumberNodes(_)
NumberNodes(v) ==
    CASE v.type = "NumberLiteral" -> {v}
      [] v.type = "Array" ->
           UNION {NumberNodes(v.Elements[i]) : i \in 1..Len(v.Elements)}
      [] v.type = "Object" ->
           UNION {NumberNodes(v.Pairs[k]) : k \in DOMAIN v.Pairs}
      [] OTHER -> {}

\* C11: after a successful ParseJSON, every Number node has IsInt = true
\* and Int equal to the literal's integer value when the literal has no
\* '.', 'e' or 'E', and IsInt = false with Float holding the value otherwise.
C11_NumberClassified ==
    Done /\ result.err = NilError =>
        \A n \in NumberNodes(result.value) :
            IF IsIntegerText(n.Value)
            THEN n.IsInt /\ n.Int = IntegerValue(n.Value)
            ELSE ~n.IsInt /\ n.Float = DecimalValue(n.Value)

SameToken(a, b) == a.Type = b.Type /\ a.Literal = b.Literal

\* C12: over a reader that delivers the bytes without error, the streamed
\* Lexer returns, call for call, tokens of the same kind and literal as the
\* Lexer created over the same bytes as a string.
C12_StreamedSameAsFixed ==
    ~HasError(lex.source) =>
        \A i \in 1..Min(Len(lex.fixedToks), Len(lex.streamedToks)) :
            SameToken(lex.streamedToks[i], lex.fixedToks[i])

\* C13: NextToken never faults: in string mode and in streaming mode, also
\* over a reader that delivers short reads or a read error after some data,
\* no NextToken call makes an out-of-range slice or index access.
C13_NextTokenNeverFaults == ~lex.fixed.fault /\ ~lex.streamed.fault

\* an Errors() entry as the text "Line L, Column C: <message>"
DiagnosticText(e) ==
    Sprintf("Line %d, Column %d: %s", <<Dec(e.Line), Dec(e.Column), Str(e.msg)>>)

\* C16: when ParseJSON fails after the parser has recorded errors, the
\* error it returns is the first recorded diagnostic, in the form
\* 'Line L, Column C: <message>'.
C16_ReturnsFirstDiagnostic ==
    Done /\ Failed /\ Errors(p) # <<>> =>
        /\ result.err.format = DiagnosticText(Errors(p)[1]).format
        /\ result.err.args = DiagnosticText(Errors(p)[1]).args

\* the offset in the input at which the token of a NextToken call starts
TokenStart(l) == skipWhitespace(l).position

\* the token of a call starts at the first character of a line
StartsLine(l) ==
    \/ TokenStart(l) = 0
    \/ l.input[TokenStart(l)] = "\n"

\* the token of a call starts on the first line
OnFirstLine(l) == \A i \in 1..TokenStart(l) : l.input[i] # "\n"

\* C17: token positions are 1-based in Line and 0-based in Column: a token
\* that starts at the first character of a line (in particular of the
\* input) has Column 0, and a token on the first line has Line 1.
C17_ColumnZeroBased ==
    \A i \in 1..Len(lex.plainCalls) :
        LET c == lex.plainCalls[i]
        IN c.t.Type # TokenEOF =>
              /\ StartsLine(c.l) => c.t.Column = 0
              /\ OnFirstLine(c.l) => c.t.Line = 1

Verb(v) == [verb |-> v]

\* the formats of the errors ParseJSON returns, word by word
FormatWords(format) ==
    CASE format = "expected { or [, got %s at line %d, column %d" ->
           <<Str("expected"), Str("{"), Str("or"), Str("["), Str(","),
             Str("got"), Verb("%s"), Str("at"), Str("line"), Verb("%d"),
             Str(","), Str("column"), Verb("%d")>>
      [] format = "unexpected token after main value: %s at line %d, column %d" ->
           <<Str("unexpected"), Str("token"), Str("after"), Str("main"),
             Str("value"), Str(":"), Verb("%s"), Str("at"), Str("line"),
             Verb("%d"), Str(","), Str("column"), Verb("%d")>>

\* the words of a format with its arguments filled in
RECURSIVE Fill(_, _)
Fill(words, args) ==
    IF words = <<>> THEN <<>>
    ELSE IF words[1] \in {Verb("%s"), Verb("%d")}
    THEN <<args[1]>> \o Fill(Tail(words), Tail(args))
    ELSE <<words[1]>> \o Fill(Tail(words), args)

\* err.Error(), word by word
ErrorWords(e) == Fill(FormatWords(e.format), e.args)

\* strings.Contains, on words
ContainsWords(text, phrase) ==
    \E i \in 0..(Len(text) - Len(phrase)) :
        SubSeq(text, i + 1, i + Len(phrase)) = phrase

\* expectedErrors of isExpectedError
ExpectedErrors ==
    {<<Str("unexpected"), Str("token")>>,
     <<Str("invalid"), Str("character")>>,
     <<Str("unterminated"), Str("string")>>,
     <<Str("invalid"), Str("number"), Str("format")>>}

\* C18: every non-nil error ParseJSON returns contains 'unexpected token',
\* 'invalid character', 'unterminated string' or 'invalid number format'.
C18_ErrorIsExpected ==
    Done /\ Failed =>
        \E phrase \in ExpectedErrors : ContainsWords(ErrorWords(result.err), phrase)

\* the Go value a document stands for: an integer text as int64, another
\* number as float64, a repeated key by its last occurrence
RECURSIVE TreeGo(_), TreeGoPairs(_, _)
TreeGo(t) ==
    CASE t.k = "str" -> GoString(t.lit)
      [] t.k = "num" ->
           IF IsIntegerText(t.lit) THEN GoInt64(IntegerValue(t.lit))
           ELSE GoFloat64(DecimalValue(t.lit))
      [] t.k = "true" -> GoBool(TRUE)
      [] t.k = "false" -> GoBool(FALSE)
      [] t.k = "null" -> GoNil
      [] t.k = "arr" -> GoSlice([i \in 1..Len(t.elems) |-> TreeGo(t.elems[i])])
      [] t.k = "obj" -> GoMap(TreeGoPairs(t.pairs, Len(t.pairs)))
TreeGoPairs(ps, n) ==
    [key \in {ps[i][1] : i \in 1..n} |->
        TreeGo(ps[CHOOSE i \in 1..n :
                     /\ ps[i][1] = key
                     /\ \A j \in (i + 1)..n : ps[j][1] # key][2])]

\* the i-th call was a Decode that stored document t
DecodeStored(i, t) ==
    /\ dec.calls[i].op = "Decode"
    /\ dec.calls[i].err = NilError
    /\ dec.calls[i].stored
    /\ dec.calls[i].v = TreeGo(t)

\* C19: on a stream holding two documents, the first Decode stores the
\* first document and the second Decode stores the second.
C19_SuccessiveDecodes ==
    /\ Len(dec.stream.docs) = 2
    /\ Len(dec.calls) >= 2
    /\ dec.calls[1].op = "Decode"
    /\ dec.calls[2].op = "Decode"
    => DecodeStored(1, dec.stream.docs[1]) /\ DecodeStored(2, dec.stream.docs[2])

\* C20: on a decoder freshly created over a stream that holds one
\* document, More() is true before Decode, and false after that document
\* has been decoded.
C20_MoreReportsRemaining ==
    Len(dec.stream.docs) = 1 =>
        /\ Len(dec.calls) >= 1 /\ dec.calls[1].op = "More" => dec.calls[1].more
        /\ Len(dec.calls) >= 2 /\ dec.calls[1].op = "Decode"
              /\ dec.calls[1].err = NilError /\ dec.calls[2].op = "More"
           => ~dec.calls[2].more

\* no token other than EOF follows an EOF token
EofAbsorbing(toks) ==
    \A i \in 1..Len(toks) : \A j \in (i + 1)..Len(toks) :
        toks[i].Type = TokenEOF => toks[j].Type = TokenEOF

PlainToks == [i \in 1..Len(lex.plainCalls) |-> lex.plainCalls[i].t]

\* C22: once NextToken has returned an EOF token, every later NextToken
\* call on that Lexer returns an EOF token.
C22_EofAbsorbing ==
    /\ EofAbsorbing(PlainToks)
    /\ EofAbsorbing(lex.fixedToks)
    /\ EofAbsorbing(lex.streamedToks)

\* a NextToken call has just been made on the Lexer of lexer.go, or on the
\* Lexer with a streaming mode created over the string
PlainCalled == lex.turn = "plain" /\ lex'.turn = "fixed"
FixedCalled == lex.turn = "fixed" /\ lex'.turn = "streamed"

Last(s) == s[Len(s)]

\* the rest of the input at which the token of a call starts; the Lexer
\* with a streaming mode leaves position on the last byte at the end of
\* the input, where its current character is 0
PlainRest(l) == Drop(l.input, skipWhitespace(l).position)
FixedRest(l) ==
    IF S_skipWhitespace(l).ch = NUL THEN <<>>
    ELSE Drop(l.input, S_skipWhitespace(l).position)

\* s matches [0-9]+
IsDigits(s) == s # <<>> /\ DigitPrefix(s) = s

\* s matches (0|[1-9][0-9]*)
IsIntPart(s) == IsDigits(s) /\ (s[1] = "0" => Len(s) = 1)

\* s matches ([eE][+-]?[0-9]+)?
IsExpPart(s) ==
    \/ s = <<>>
    \/ /\ s[1] \in {"e", "E"}
       /\ \/ IsDigits(Tail(s))
          \/ Len(s) >= 2 /\ s[2] \in {"+", "-"} /\ IsDigits(Drop(s, 2))

\* s matches (.[0-9]+)?([eE][+-]?[0-9]+)?
IsFracExpPart(s) ==
    \/ IsExpPart(s)
    \/ /\ s # <<>> /\ s[1] = "."
       /\ DigitPrefix(Tail(s)) # <<>>
       /\ IsExpPart(Drop(s, 1 + Len(DigitPrefix(Tail(s)))))

\* s matches -?(0|[1-9][0-9]*)(.[0-9]+)?([eE][+-]?[0-9]+)?
IsNumberText(s) ==
    LET u == IF s # <<>> /\ s[1] = "-" THEN Tail(s) ELSE s
        int == DigitPrefix(u)
    IN IsIntPart(int) /\ IsFracExpPart(Drop(u, Len(int)))

StartsWithDigit(s) == s # <<>> /\ isDigit(s[1])

\* after the digits of a fraction or of the integer part: an exponent
\* without a digit
BadExponent(s) ==
    /\ s # <<>> /\ s[1] \in {"e", "E"}
    /\ ~StartsWithDigit(IF Len(s) >= 2 /\ s[2] \in {"+", "-"}
                        THEN Drop(s, 2) ELSE Tail(s))

\* after the integer part: a '.' without a digit, or an exponent without
\* a digit after the integer part or after the fraction
BadFracExp(s) ==
    \/ s # <<>> /\ s[1] = "." /\ ~StartsWithDigit(Tail(s))
    \/ s # <<>> /\ s[1] = "." /\ StartsWithDigit(Tail(s))
          /\ BadExponent(Drop(s, 1 + Len(DigitPrefix(Tail(s)))))
    \/ BadExponent(s)

\* the rest of the input starts with a malformed number: a '-' not followed
\* by a digit, a '0' followed by a digit, a '.' not followed by a digit, or
\* an exponent without a digit
MalformedNumber(rest) ==
    LET u == IF rest # <<>> /\ rest[1] = "-" THEN Tail(rest) ELSE rest
    IN \/ rest # <<>> /\ rest[1] = "-" /\ ~StartsWithDigit(u)
       \/ StartsWithDigit(u) /\ u[1] = "0" /\ StartsWithDigit(Tail(u))
       \/ StartsWithDigit(u) /\ ~(u[1] = "0" /\ StartsWithDigit(Tail(u)))
             /\ BadFracExp(Drop(u, Len(IF u[1] = "0" THEN <<"0">> ELSE DigitPrefix(u))))

\* the bytes a number scan goes over: the longest prefix of rest of the
\* form -? digits (. digits)? ([eE] [+-]? digits)?, each part taken only
\* when its digits are there
ExpPrefix(s) ==
    IF s # <<>> /\ s[1] \in {"e", "E"} /\ ~BadExponent(s)
    THEN IF s[2] \in {"+", "-"}
         THEN <<s[1], s[2]>> \o DigitPrefix(Drop(s, 2))
         ELSE <<s[1]>> \o DigitPrefix(Tail(s))
    ELSE <<>>
FracPrefix(s) ==
    IF s # <<>> /\ s[1] = "." /\ StartsWithDigit(Tail(s))
    THEN <<".">> \o DigitPrefix(Tail(s))
    ELSE <<>>
FracExpPrefix(s) == FracPrefix(s) \o ExpPrefix(Drop(s, Len(FracPrefix(s))))
IntPrefix(s) == IF s # <<>> /\ s[1] = "0" THEN <<"0">> ELSE DigitPrefix(s)
UnsignedPrefix(s) == IntPrefix(s) \o FracExpPrefix(Drop(s, Len(IntPrefix(s))))
NumberPrefix(rest) ==
    IF rest # <<>> /\ rest[1] = "-"
    THEN <<"-">> \o UnsignedPrefix(Tail(rest))
    ELSE UnsignedPrefix(rest)

\* what the claim says of the token t of a call made at the rest of the
\* input
NumberTokenRight(rest, t) ==
    /\ t.Type = TokenNumber =>
          t.Literal = NumberPrefix(rest) /\ IsNumberText(t.Literal)
    /\ MalformedNumber(rest) => t.Type = TokenIllegal

\* C23: a NUMBER token's literal is exactly the bytes consumed for it and
\* matches -?(0|[1-9][0-9]*)(.[0-9]+)?([eE][+-]?[0-9]+)?, also at the end
\* of the input; a '-' without a digit, a '0' followed by a digit, a '.'
\* without a digit and an exponent without a digit yield ILLEGAL.
C23_NumberLiteral ==
    [][/\ PlainCalled =>
             NumberTokenRight(PlainRest(lex.plain), Last(lex'.plainCalls).t)
       /\ FixedCalled =>
             NumberTokenRight(FixedRest(lex.fixed), Last(lex'.fixedToks))]_vars

\* the longest prefix of ASCII letters of a text
RECURSIVE LetterPrefix(_)
LetterPrefix(s) ==
    IF s # <<>> /\ isLetter(s[1]) THEN <<s[1]>> \o LetterPrefix(Tail(s)) ELSE <<>>

\* the token kind of a run of letters
WordType(run) ==
    CASE run = <<"t", "r", "u", "e">> -> TokenTrue
      [] run = <<"f", "a", "l", "s", "e">> -> TokenFalse
      [] run = <<"n", "u", "l", "l">> -> TokenNull
      [] OTHER -> TokenIllegal

\* the character a Lexer is at when the text s is what is left to read
CharAt(s) == IF s = <<>> THEN NUL ELSE s[1]

\* what the claim says of the token t of a call made at the rest of the
\* input, which leaves the Lexer at the character ch
KeywordTokenRight(rest, ch, t) ==
    rest # <<>> /\ rest[1] \in {"t", "f", "n"} =>
        /\ t.Type = WordType(LetterPrefix(rest))
        /\ t.Literal = IF t.Type = TokenIllegal THEN <<"Invalid token">>
                       ELSE LetterPrefix(rest)
        /\ ch = CharAt(Drop(rest, Len(LetterPrefix(rest))))

\* C24: at 't', 'f' or 'n' NextToken consumes the maximal run of ASCII
\* letters and returns TRUE, FALSE or NULL exactly when the run is 'true',
\* 'false' or 'null', also at the end of the input; otherwise it returns
\* one ILLEGAL token with the literal 'Invalid token' for the whole run.
C24_KeywordToken ==
    [][/\ PlainCalled =>
             KeywordTokenRight(PlainRest(lex.plain), lex'.plain.ch,
                               Last(lex'.plainCalls).t)
       /\ FixedCalled =>
             KeywordTokenRight(FixedRest(lex.fixed), lex'.fixed.ch,
                               Last(lex'.fixedToks))]_vars

StreamedCalled == lex.turn = "streamed" /\ lex'.turn = "plain"

\* the index of the quote that closes a string whose content starts at
\* index i of s, a backslash taking the byte after it with it; 0 when the
\* input (which the byte 0 ends) is over before a closing quote
RECURSIVE StringEnd(_, _)
StringEnd(s, i) ==
    IF i > Len(s) \/ s[i] = NUL THEN 0
    ELSE IF s[i] = "\"" THEN i
    ELSE IF s[i] = "\\"
         THEN IF i + 1 > Len(s) \/ s[i + 1] = NUL THEN 0 ELSE StringEnd(s, i + 2)
    ELSE StringEnd(s, i + 1)

\* the rest of the input starts with a terminated string
TerminatedString(rest) ==
    rest # <<>> /\ rest[1] = "\"" /\ StringEnd(rest, 2) # 0

\* what the claim says of the token t of a call made at the rest of the
\* input
StringTokenRight(rest, t) ==
    TerminatedString(rest) =>
        /\ t.Type = TokenString
        /\ t.Literal = SubSeq(rest, 2, StringEnd(rest, 2) - 1)

\* C25: for a terminated string the STRING token's literal is the source
\* bytes strictly between the opening and the closing quote, a backslash
\* taking the byte after it with it and staying undecoded; the Lexer over
\* a string and the streaming Lexer produce the same literal.
C25_StringLiteral ==
    [][/\ PlainCalled =>
             StringTokenRight(PlainRest(lex.plain), Last(lex'.plainCalls).t)
       /\ FixedCalled =>
             StringTokenRight(FixedRest(lex.fixed), Last(lex'.fixedToks))
       /\ StreamedCalled /\ lex.streamedToks = <<>> /\ ~HasError(lex.source) =>
             StringTokenRight(SkipWs(Bytes(lex.source)), Last(lex'.streamedToks))]_vars

\* the step records one error with the message format % kind and consumes
\* no token
RecordsOnly(format, kind) ==
    /\ Errors(p') = Append(Errors(p), Last(Errors(p')))
    /\ Last(Errors(p')).msg = Sprintf(format, <<Str(kind)>>)
    /\ p'.currentToken = p.currentToken
    /\ p'.peekToken = p.peekToken
    /\ p'.lexer = p.lexer

\* the function on top of the stack returns without a value
ReturnsNil == stack' = Pop /\ ret'.set /\ ret'.value = NilValue

\* C26: in key position, a current token that is not STRING records
\* 'expected string key, got <kind>', and a STRING key whose next token is
\* not ':' records 'expected :, got <kind>'; in both cases
\* parseKeyValuePair consumes no token and yields no value.
C26_KeyErrors ==
    [][At("parseKeyValuePair", "entry") =>
          /\ p.currentToken.Type # TokenString =>
                /\ RecordsOnly("expected string key, got %s", p.currentToken.Type)
                /\ ReturnsNil
          /\ p.currentToken.Type = TokenString /\ p.peekToken.Type # TokenColon =>
                /\ RecordsOnly("expected :, got %s", p.peekToken.Type)
                /\ ReturnsNil]_vars

\* parseKeyValuePair has just returned from a key that is not a string
C26_Witness ==
    /\ At("parseObject", "afterPair")
    /\ ret.set /\ ret.value = NilValue
    /\ p.currentToken.Type # TokenString
    /\ Errors(p) # <<>>
    /\ Last(Errors(p)).msg =
          Sprintf("expected string key, got %s", <<Str(p.currentToken.Type)>>)

\* C27: the parser is fail-fast: once it has recorded its first error it
\* consumes no further token from the lexer and records no further error,
\* so a container never goes on to parse members after a failed one.
C27_FailFast ==
    [][Errors(p) # <<>> =>
          /\ p'.lexer = p.lexer
          /\ p'.currentToken = p.currentToken
          /\ Errors(p') = Errors(p)]_vars

\* the container on top of the stack, after the step: still active, or
\* returned
ArrayAfter == IF stack' = Pop THEN ret'.value ELSE stack'[Len(stack)].array
ObjectAfter == IF stack' = Pop THEN ret'.value ELSE stack'[Len(stack)].object

\* C28: when the token after the last pair or element of a container is
\* neither ',' nor the matching closing bracket, parseObject/parseArray
\* records 'expected }, got <kind>' (or 'expected ], got <kind>'), returns
\* nil and leaves that token unconsumed, so an enclosing container
\* receives nil as that member's value.
C28_MissingClose ==
    [][/\ At("parseObject", "afterPair")
             /\ p.peekToken.Type \notin {TokenComma, TokenBraceClose} =>
          RecordsOnly("expected }, got %s", p.peekToken.Type) /\ ReturnsNil
       /\ At("parseArray", "afterValue")
             /\ p.peekToken.Type \notin {TokenComma, TokenBracketClose} =>
          RecordsOnly("expected ], got %s", p.peekToken.Type) /\ ReturnsNil
       /\ At("parseArray", "afterValue") /\ ret.value = NilValue
             /\ p.peekToken.Type \in {TokenComma, TokenBracketClose} =>
          ArrayAfter.Elements = Append(Top.array.Elements, NilValue)
       /\ At("parseObject", "afterPair") /\ ret.value = NilValue
             /\ p.peekToken.Type \in {TokenComma, TokenBraceClose} =>
          ObjectAfter.Pairs[ret.key] = NilValue]_vars

\* an array has returned with the nil of an object that was closed by ']'
C28_Witness ==
    /\ pc = "running"
    /\ ret.set
    /\ ret.value.type = "Array"
    /\ ret.value.Elements # <<>>
    /\ Last(ret.value.Elements) = NilValue
    /\ Errors(p) # <<>>
    /\ Last(Errors(p)).msg = Sprintf("expected }, got %s", <<Str(TokenBracketClose)>>)

\* the keys of a sequence of pairs of a document tree
KeysOf(ps) == {ps[i][1] : i \in 1..Len(ps)}

\* a key occurs more than once among the pairs
HasRepeatedKey(ps) ==
    \E i \in 1..Len(ps) : \E j \in (i + 1)..Len(ps) : ps[i][1] = ps[j][1]

\* the pair i is the last one with its key
LastOfKey(ps, i) == \A j \in (i + 1)..Len(ps) : ps[j][1] # ps[i][1]

\* the input is a well-formed object in which a key occurs more than once
RepeatedKeyInput ==
    /\ Input \in WellFormedInputs
    /\ DocOf(Input).k = "obj"
    /\ HasRepeatedKey(DocOf(Input).pairs)

\* C29: for an object in which a key occurs more than once, the resulting
\* Object holds exactly one entry per distinct key, and the value kept for
\* a repeated key is that of its last occurrence in source order.
C29_LastKeyWins ==
    Done /\ RepeatedKeyInput =>
        /\ result.value.type = "Object"
        /\ DOMAIN result.value.Pairs = KeysOf(DocOf(Input).pairs)
        /\ \A i \in 1..Len(DocOf(Input).pairs) :
              LastOfKey(DocOf(Input).pairs, i) =>
                 AbsValue(result.value.Pairs[DocOf(Input).pairs[i][1]])
                    = TreeValue(DocOf(Input).pairs[i][2])

\* an object whose repeated key has two different values has been parsed
C29_Witness ==
    /\ Done /\ RepeatedKeyInput
    /\ TreeValue(DocOf(Input).pairs[1][2]) # TreeValue(DocOf(Input).pairs[2][2])
    /\ result.value.type = "Object"

(***************************************************************************)
(* NewNumberLiteral (the second version of the value tree), run on its own *)
(* over number texts.  An int64 is its value; a text whose value is out of *)
(* the int64 range is recognised on its digits.  A float64 is the decimal  *)
(* mant * 10^exp the text writes; its rounding to binary is left out.      *)
(***************************************************************************)
Unsigned(lit) == IF lit # <<>> /\ lit[1] \in {"+", "-"} THEN Tail(lit) ELSE lit

Negative(lit) == lit # <<>> /\ lit[1] = "-"

\* digits without leading zeros
RECURSIVE StripZeros(_)
StripZeros(ds) ==
    IF ds # <<>> /\ ds[1] = "0" THEN StripZeros(Tail(ds)) ELSE ds

\* a <= b for digit sequences of the same length
RECURSIVE SameLenLessEq(_, _)
SameLenLessEq(a, b) ==
    IF a = <<>> THEN TRUE
    ELSE IF a[1] = b[1] THEN SameLenLessEq(Tail(a), Tail(b))
    ELSE DigitValue(a[1]) < DigitValue(b[1])

\* a <= b for digit sequences without leading zeros
DigitsLessEq(a, b) ==
    Len(a) < Len(b) \/ (Len(a) = Len(b) /\ SameLenLessEq(a, b))

\* 1<<63 - 1 and 1<<63, in digits
MaxInt64 ==
    <<"9", "2", "2", "3", "3", "7", "2", "0", "3", "6",
      "8", "5", "4", "7", "7", "5", "8", "0", "7">>
MinInt64Magnitude ==
    <<"9", "2", "2", "3", "3", "7", "2", "0", "3", "6",
      "8", "5", "4", "7", "7", "5", "8", "0", "8">>

\* strconv.ParseInt(lit, 10, 64) returns an error: no digits or a byte
\* that is no digit after the optional sign, or a value out of range
ParseIntFails(lit) ==
    \/ ~IsDigits(Unsigned(lit))
    \/ ~DigitsLessEq(StripZeros(Unsigned(lit)),
                     IF Negative(lit) THEN MinInt64Magnitude ELSE MaxInt64)

ParseIntValue(lit) ==
    IF Negative(lit) THEN 0 - DigitsValue(Unsigned(lit))
    ELSE DigitsValue(Unsigned(lit))

\* the largest decimal exponent of a float64 (1.797e308)
MaxFloat64Exp10 == 308

\* the parts of a float text: [+-] int [. frac] [(e|E) [+-] exp] rest
FloatExp(r) ==
    IF r # <<>> /\ r[1] \in {"e", "E"}
    THEN [has |-> TRUE,
          neg |-> Len(r) >= 2 /\ r[2] = "-",
          digits |-> DigitPrefix(Unsigned(Tail(r))),
          rest |-> Drop(Unsigned(Tail(r)), Len(DigitPrefix(Unsigned(Tail(r)))))]
    ELSE [has |-> FALSE, neg |-> FALSE, digits |-> <<>>, rest |-> r]
FloatFrac(r) ==
    IF r # <<>> /\ r[1] = "."
    THEN [digits |-> DigitPrefix(Tail(r)),
          exp |-> FloatExp(Drop(r, 1 + Len(DigitPrefix(Tail(r)))))]
    ELSE [digits |-> <<>>, exp |-> FloatExp(r)]
FloatParts(lit) ==
    [int |-> DigitPrefix(Unsigned(lit)),
     frac |-> FloatFrac(Drop(Unsigned(lit), Len(DigitPrefix(Unsigned(lit)))))]

\* the decimal exponent of the float text with the parts fp
FloatExp10(fp) ==
    (IF fp.frac.exp.neg THEN 0 - DigitsValue(fp.frac.exp.digits)
     ELSE DigitsValue(fp.frac.exp.digits))
    - Len(fp.frac.digits)

FloatRangeError(fp) ==
    /\ StripZeros(fp.int \o fp.frac.digits) # <<>>
    /\ Len(StripZeros(fp.int \o fp.frac.digits)) + FloatExp10(fp) - 1
          > MaxFloat64Exp10

FloatSyntaxError(fp) ==
    \/ fp.int \o fp.frac.digits = <<>>
    \/ fp.frac.exp.has /\ fp.frac.exp.digits = <<>>
    \/ fp.frac.exp.rest # <<>>

\* strconv.ParseFloat(lit, 64) returns an error
ParseFloatFails(lit) ==
    FloatSyntaxError(FloatParts(lit))
    \/ FloatRangeError(FloatParts(lit))

FloatPartsValue(neg, fp) ==
    Normalized(IF neg THEN 0 - DigitsValue(fp.int \o fp.frac.digits)
               ELSE DigitsValue(fp.int \o fp.frac.digits),
               FloatExp10(fp))

ParseFloatValue(lit) == FloatPartsValue(Negative(lit), FloatParts(lit))

\* float64(i)
Float64OfInt(i) == Normalized(i, 0)

\* the character scan of NewNumberLiteral from index i (1-based) on
RECURSIVE NumberScan(_, _, _)
NumberScan(lit, i, isInt) ==
    IF i > Len(lit) THEN [ok |-> TRUE, isInt |-> isInt]
    ELSE IF lit[i] \in {"-", "+"}
         THEN IF i # 1 THEN [ok |-> FALSE, isInt |-> isInt]
              ELSE NumberScan(lit, i + 1, isInt)
    ELSE IF lit[i] = "." THEN NumberScan(lit, i + 1, FALSE)
    ELSE IF lit[i] \in {"e", "E"}
         THEN IF i + 1 > Len(lit) THEN [ok |-> FALSE, isInt |-> FALSE]
              ELSE IF lit[i + 1] \in {"-", "+"} THEN NumberScan(lit, i + 2, FALSE)
              ELSE NumberScan(lit, i + 1, FALSE)
    ELSE IF ~isDigit(lit[i]) THEN [ok |-> FALSE, isInt |-> isInt]
    ELSE NumberScan(lit, i + 1, isInt)

\* setInvalidNumberLiteral that keeps telling the kind of the literal
setInvalidNumberLiteralKeepsKind(n) ==
    [n EXCEPT !.IsValid = FALSE, !.IsInt = IsIntegerText(n.Value), !.Int = 0,
              !.Float = Float64(0, 0)]

setInvalidNumberLiteral(n) ==
    [n EXCEPT !.IsValid = FALSE, !.IsInt = FALSE, !.Int = 0,
              !.Float = Float64(0, 0)]

\* NewNumberLiteral that leaves Float alone for an integer
NewNumberLiteralIntOnly(token) ==
    IF ~NumberScan(token.Literal, 1, TRUE).ok
    THEN setInvalidNumberLiteral(NumberLiteral(token))
    ELSE IF NumberScan(token.Literal, 1, TRUE).isInt
    THEN IF ParseIntFails(token.Literal)
         THEN setInvalidNumberLiteral(NumberLiteral(token))
         ELSE [NumberLiteral(token) EXCEPT
                  !.Int = ParseIntValue(token.Literal),
                  !.IsValid = TRUE, !.IsInt = TRUE]
    ELSE IF ParseFloatFails(token.Literal)
         THEN setInvalidNumberLiteral(NumberLiteral(token))
         ELSE [NumberLiteral(token) EXCEPT
                  !.Float = ParseFloatValue(token.Literal),
                  !.IsValid = TRUE, !.IsInt = FALSE]

NewNumberLiteral(token) ==
    IF ~NumberScan(token.Literal, 1, TRUE).ok
    THEN setInvalidNumberLiteral(NumberLiteral(token))
    ELSE IF NumberScan(token.Literal, 1, TRUE).isInt
    THEN IF ParseIntFails(token.Literal)
         THEN setInvalidNumberLiteral(NumberLiteral(token))
         ELSE [NumberLiteral(token) EXCEPT
                  !.Int = ParseIntValue(token.Literal),
                  !.Float = Float64OfInt(ParseIntValue(token.Literal)),
                  !.IsValid = TRUE, !.IsInt = TRUE]
    ELSE IF ParseFloatFails(token.Literal)
         THEN setInvalidNumberLiteral(NumberLiteral(token))
         ELSE [NumberLiteral(token) EXCEPT
                  !.Float = ParseFloatValue(token.Literal),
                  !.IsValid = TRUE, !.IsInt = FALSE]

\* the number texts NewNumberLiteral is run on: a sign, an integer part, a
\* fraction and an exponent, each also absent or cut short, and integers
\* around the end of the int64 range
NumberSigns == { <<>>, <<"-">>, <<"+">> }
NumberInts == { <<>>, <<"0">>, <<"1">>, <<"1", "2">>, <<"0", "1">>, <<"1", "0">> }
NumberFracs == { <<>>, <<".">>, <<".", "5">>, <<".", "5", "0">>, <<".", "0">> }
NumberExps ==
    { <<>>, <<"e">>, <<"e", "1">>, <<"E", "+", "2">>, <<"e", "-", "1">>,
      <<"e", "+">>, <<"e", "4", "0", "0">>, <<"e", "1", "-">> }
BigInts ==
    { MaxInt64 \o <<"0">>, <<"-">> \o MaxInt64 \o <<"0">>,
      MinInt64Magnitude, <<"+">> \o MinInt64Magnitude,
      <<"-", "9", "2", "2", "3", "3", "7", "2", "0", "3", "6",
        "8", "5", "4", "7", "7", "5", "8", "0", "9">>,
      <<"0">> \o MinInt64Magnitude }
NumberTexts ==
    {sg \o int \o frac \o ex :
        sg \in NumberSigns, int \in NumberInts, frac \in NumberFracs,
        ex \in NumberExps}
    \cup BigInts

NumInit ==
    /\ \E lit \in NumberTexts : num = [literal |-> lit, calls |-> <<>>]
    /\ p = NewParser(NewLexer(<<>>))
    /\ stack = <<>>
    /\ ret = NoRet
    /\ result = NoResult
    /\ pc = "ready"
    /\ lex = NoLex
    /\ dec = NoDec
    /\ api = NoApi

\* n := NewNumberLiteral(Token{Type: TokenNumber, Literal: literal})
NewNumberLiteralCall ==
    /\ num.calls = <<>>
    /\ num' = [num EXCEPT
                  !.calls = <<NewNumberLiteral(Token(TokenNumber, num.literal, 0, 0))>>]
    /\ UNCHANGED <<p, stack, ret, result, pc, lex, dec, api>>

NumNext == NewNumberLiteralCall

NumSpec == NumInit /\ [][NumNext]_vars

\* the Number nodes NewNumberLiteral has returned
Numbers == {num.calls[i] : i \in 1..Len(num.calls)}

\* C30: a valid Number node carries its parsed value in exactly one numeric
\* field: when IsInt is true the Float field is left at zero, and when
\* IsInt is false the Int field is left at zero.
C30_OneNumericField ==
    \A n \in Numbers :
        n.IsValid =>
            /\ n.IsInt => n.Float = Float64(0, 0)
            /\ ~n.IsInt => n.Int = 0

\* C30, amended: a valid Number with IsInt true carries its value in Int
\* and the same value, converted, in Float; with IsInt false it carries
\* its value in Float and Int is left at zero.
C30_IntAlsoInFloat ==
    \A n \in Numbers :
        n.IsValid =>
            /\ n.IsInt =>
                  n.Int = ParseIntValue(n.Value) /\ n.Float = Float64OfInt(n.Int)
            /\ ~n.IsInt => n.Int = 0 /\ n.Float = ParseFloatValue(n.Value)

\* a valid integer other than zero has been built
C30_Witness ==
    \E n \in Numbers : n.IsValid /\ n.IsInt /\ n.Int # 0

(***************************************************************************)
(* The encoding package: Options, Marshal, Unmarshal and the stream        *)
(* encoder.  An error made by fmt.Errorf is kept as its format and its     *)
(* arguments.  The target of Unmarshal is a pointer to an interface{}; the *)
(* values given to Marshal and Encode are made of map[string]interface{},  *)
(* []interface{}, string, bool, int64, float64 and nil, and of a channel,  *)
(* which has no JSON form.                                                 *)
(***************************************************************************)
DefaultMaxSize == 1024 * 1024 * 10
MinimumMaxSize == 1024
MaximumMaxSize == 1024 * 1024 * 1024

Options(maxSize, disableSizeLimit, strictMode) ==
    [MaxSize |-> maxSize, DisableSizeLimit |-> disableSizeLimit,
     StrictMode |-> strictMode]

\* o.Validate()
Validate(o) ==
    IF o.DisableSizeLimit THEN NilError
    ELSE IF o.MaxSize < MinimumMaxSize
    THEN Sprintf("max size %d is below minimum allowed size %d",
                 <<Dec(o.MaxSize), Dec(MinimumMaxSize)>>)
    ELSE IF o.MaxSize > MaximumMaxSize
    THEN Sprintf("max size %d exceeds maximum allowed size %d",
                 <<Dec(o.MaxSize), Dec(MaximumMaxSize)>>)
    ELSE NilError

defaultOptions == Options(DefaultMaxSize, FALSE, FALSE)

\* the Option values
WithMaxSize(size) == [option |-> "WithMaxSize", size |-> size]
WithDisableSizeLimit == [option |-> "WithDisableSizeLimit", size |-> 0]
WithStrictMode == [option |-> "WithStrictMode", size |-> 0]

\* opt(options): the options it leaves and the error it returns
Option(opt, o) ==
    CASE opt.option = "WithMaxSize" ->
           IF opt.size <= 0
           THEN [options |-> o,
                 err |-> Sprintf("max size must be positive, got %d", <<Dec(opt.size)>>)]
           ELSE [options |-> [o EXCEPT !.MaxSize = opt.size], err |-> NilError]
      [] opt.option = "WithDisableSizeLimit" ->
           [options |-> [o EXCEPT !.DisableSizeLimit = TRUE], err |-> NilError]
      [] opt.option = "WithStrictMode" ->
           [options |-> [o EXCEPT !.StrictMode = TRUE], err |-> NilError]

\* applyOptions: the loop over opts
RECURSIVE applyOptionsLoop(_, _)
applyOptionsLoop(o, opts) ==
    IF opts = <<>> THEN [options |-> o, err |-> NilError]
    ELSE IF Option(Head(opts), o).err # NilError
    THEN [options |-> o,
          err |-> Sprintf("invalid option: %w", <<Str(Option(Head(opts), o).err)>>)]
    ELSE applyOptionsLoop(Option(Head(opts), o).options, Tail(opts))

applyOptionsValidated(r) ==
    IF r.err # NilError THEN r
    ELSE IF Validate(r.options) # NilError
    THEN [options |-> r.options,
          err |-> Sprintf("invalid options: %w", <<Str(Validate(r.options))>>)]
    ELSE r

applyOptions(opts) == applyOptionsValidated(applyOptionsLoop(defaultOptions, opts))

\* a channel, as an example of a Go value of an unsupported kind
GoChan == [chan |-> TRUE]

GoKind(v) == CHOOSE k \in DOMAIN v : TRUE

\* 10^n
RECURSIVE Pow10(_)
Pow10(n) == IF n = 0 THEN 1 ELSE 10 * Pow10(n - 1)

\* the decimal digits of n >= 0
RECURSIVE Digits(_)
Digits(n) ==
    IF n < 10 THEN <<DigitChars[n + 1]>>
    ELSE Append(Digits(n \div 10), DigitChars[(n % 10) + 1])

Abs(n) == IF n < 0 THEN 0 - n ELSE n

\* fmt.Sprintf("%d", n)
FormatInt(n) == IF n < 0 THEN <<"-">> \o Digits(0 - n) ELSE Digits(n)

Zeros(n) == [i \in 1..n |-> "0"]

\* digits, with zeros in front up to the length n
PadLeft(ds, n) == IF Len(ds) >= n THEN ds ELSE Zeros(n - Len(ds)) \o ds

\* the exponent of %e: a sign and at least two digits
FormatExp(x) ==
    (IF x < 0 THEN <<"-">> ELSE <<"+">>) \o PadLeft(Digits(Abs(x)), 2)

\* the digits ds as d.ddd
Mantissa(ds) == IF Len(ds) = 1 THEN ds ELSE <<ds[1], ".">> \o Tail(ds)

\* the digits ds times 10^exp in positional notation, without padding
Positional(ds, exp) ==
    IF exp >= 0 THEN ds \o Zeros(exp)
    ELSE IF Len(ds) > 0 - exp
    THEN SubSeq(ds, 1, Len(ds) + exp) \o <<".">> \o SubSeq(ds, Len(ds) + exp + 1, Len(ds))
    ELSE <<"0", ".">> \o PadLeft(ds, 0 - exp)

\* fmt.Sprintf("%g", f): the shortest digits, with an exponent when the
\* decimal exponent is below -4 or at least 6
FormatGAbs(ds, exp) ==
    IF exp + Len(ds) - 1 < 0 - 4 \/ exp + Len(ds) - 1 >= 6
    THEN Mantissa(ds) \o <<"e">> \o FormatExp(exp + Len(ds) - 1)
    ELSE Positional(ds, exp)
FormatG(f) ==
    (IF f.mant < 0 THEN <<"-">> ELSE <<>>) \o FormatGAbs(Digits(Abs(f.mant)), f.exp)

\* fmt.Sprintf("%f", f) of a value with at most six decimals: six digits
\* after the point
FormatFAbs(m, exp) ==
    IF exp >= 0 THEN Digits(m) \o Zeros(exp) \o <<".">> \o Zeros(6)
    ELSE Digits(m \div Pow10(0 - exp)) \o <<".">>
         \o PadLeft(Digits(m % Pow10(0 - exp)), 0 - exp) \o Zeros(6 + exp)
FormatF(f) ==
    (IF f.mant < 0 THEN <<"-">> ELSE <<>>) \o FormatFAbs(Abs(f.mant), f.exp)

\* n.String() of a NumberLiteral
NumberString(n) == IF n.IsInt THEN FormatInt(n.Int) ELSE FormatF(n.Float)

\* strconv.Quote(s), which %q writes
QuoteChar(ch) ==
    CASE ch = "\"" -> <<"\\", "\"">>
      [] ch = "\\" -> <<"\\", "\\">>
      [] ch = "\n" -> <<"\\", "n">>
      [] ch = NUL -> <<"\\", "x", "0", "0">>
      [] OTHER -> <<ch>>
Quote(s) == <<"\"">> \o Flatten([i \in 1..Len(s) |-> QuoteChar(s[i])]) \o <<"\"">>

\* marshalValue(v) returns a nil error
RECURSIVE Marshals(_)
Marshals(v) ==
    CASE GoKind(v) = "chan" -> FALSE
      [] GoKind(v) = "map" -> \A k \in DOMAIN v.map : Marshals(v.map[k])
      [] GoKind(v) = "slice" -> \A i \in 1..Len(v.slice) : Marshals(v.slice[i])
      [] OTHER -> TRUE

\* the parser.Value marshalValue(v) returns with a nil error
RECURSIVE marshalValue(_)
marshalValue(v) ==
    CASE GoKind(v) = "string" ->
           [type |-> "StringLiteral",
            Token |-> [ZeroToken EXCEPT !.Type = TokenString], Value |-> v.string]
      [] GoKind(v) = "bool" ->
           Boolean([ZeroToken EXCEPT !.Type = TokenTrue], v.bool)
      [] GoKind(v) = "int64" ->
           NewNumberLiteral([ZeroToken EXCEPT !.Type = TokenNumber,
                                              !.Literal = FormatInt(v.int64)])
      [] GoKind(v) = "float64" ->
           NewNumberLiteral([ZeroToken EXCEPT !.Type = TokenNumber,
                                              !.Literal = FormatG(v.float64)])
      [] GoKind(v) = "map" ->
           Object([ZeroToken EXCEPT !.Type = TokenBraceOpen],
                  [k \in DOMAIN v.map |-> marshalValue(v.map[k])])
      [] GoKind(v) = "slice" ->
           Array([ZeroToken EXCEPT !.Type = TokenBracketOpen],
                 [i \in 1..Len(v.slice) |-> marshalValue(v.slice[i])])
      [] GoKind(v) = "nil" -> Null([ZeroToken EXCEPT !.Type = TokenNull])

\* the index of the first element of a slice that does not marshal
FirstFailing(s) ==
    CHOOSE i \in 1..Len(s) :
        ~Marshals(s[i]) /\ \A j \in 1..(i - 1) : Marshals(s[j])

\* the errors marshalValue(v) can return: of a slice the error of the first
\* element that fails, of a map the error of any value that fails
RECURSIVE MarshalErrors(_)
MarshalErrors(v) ==
    CASE GoKind(v) = "chan" -> {Sprintf("unsupported type: %v", <<Str("chan int")>>)}
      [] GoKind(v) = "map" ->
           UNION {{Sprintf("map value: %v", <<Str(e)>>) : e \in MarshalErrors(v.map[k])} :
                  k \in {x \in DOMAIN v.map : ~Marshals(v.map[x])}}
      [] GoKind(v) = "slice" ->
           {Sprintf("index %d: %v", <<Dec(FirstFailing(v.slice) - 1), Str(e)>>) :
               e \in MarshalErrors(v.slice[FirstFailing(v.slice)])}
      [] OTHER -> {}

\* the orders in which a range over a map with the keys ks can go
RECURSIVE KeyOrders(_)
KeyOrders(ks) ==
    IF ks = {} THEN {<<>>}
    ELSE UNION {{<<k>> \o rest : rest \in KeyOrders(ks \ {k})} : k \in ks}

\* the texts writeValue can write for a value
RECURSIVE writeValue(_), writePairs(_, _), writeElements(_)
writeValue(v) ==
    CASE v.type = "Object" ->
           UNION {{<<"{">> \o body \o <<"}">> : body \in writePairs(v.Pairs, order)} :
                  order \in KeyOrders(DOMAIN v.Pairs)}
      [] v.type = "Array" ->
           {<<"[">> \o body \o <<"]">> : body \in writeElements(v.Elements)}
      [] v.type = "StringLiteral" -> {Quote(v.Value)}
      [] v.type = "NumberLiteral" -> {NumberString(v)}
      [] v.type = "Boolean" ->
           {IF v.Value THEN <<"t", "r", "u", "e">> ELSE <<"f", "a", "l", "s", "e">>}
      [] v.type = "Null" -> {<<"n", "u", "l", "l">>}
writePairs(pairs, order) ==
    IF order = <<>> THEN {<<>>}
    ELSE {Quote(Head(order)) \o <<":">> \o value
             \o (IF Tail(order) = <<>> THEN <<>> ELSE <<",">>) \o rest :
          value \in writeValue(pairs[Head(order)]),
          rest \in writePairs(pairs, Tail(order))}
writeElements(es) ==
    IF es = <<>> THEN {<<>>}
    ELSE {value \o (IF Tail(es) = <<>> THEN <<>> ELSE <<",">>) \o rest :
          value \in writeValue(Head(es)), rest \in writeElements(Tail(es))}

\* what Marshal returns for the text it has written, under the options o
MarshalChecked(o, text) ==
    IF Len(text) > o.MaxSize
    THEN [data |-> <<>>,
          err |-> Sprintf("marshaled JSON size (%d bytes) exceeds maximum allowed size (%d bytes)",
                          <<Dec(Len(text)), Dec(o.MaxSize)>>),
          panic |-> FALSE]
    ELSE [data |-> text, err |-> NilError, panic |-> FALSE]

\* what Marshal(v, opts...) can return: (data, err), or the panic of
\* reflect.Value.Type on the zero Value that reflect.ValueOf(nil) is
MarshalReturns(v, opts) ==
    IF applyOptions(opts).err # NilError
    THEN {[data |-> <<>>, err |-> applyOptions(opts).err, panic |-> FALSE]}
    ELSE IF GoKind(v) = "nil"
    THEN {[data |-> <<>>, err |-> NilError, panic |-> TRUE]}
    ELSE IF ~Marshals(v)
    THEN {[data |-> <<>>, err |-> Sprintf("marshal error: %v", <<Str(e)>>),
           panic |-> FALSE] : e \in MarshalErrors(v)}
    ELSE {MarshalChecked(applyOptions(opts).options, text) :
             text \in writeValue(marshalValue(v))}

\* what a call of the package returned
Returned3(op, options, r) ==
    [op |-> op, options |-> options, err |-> r.err, data |-> r.data,
     panic |-> r.panic]

\* no call is running and none has returned; there is no encoder
NoCall == [op |-> "none"]
NoEncoder == [made |-> FALSE]

\* the option lists given to the calls
OptionLists ==
    { <<>>, <<WithDisableSizeLimit>>, <<WithStrictMode>>,
      <<WithMaxSize(0)>>, <<WithMaxSize(5)>>, <<WithMaxSize(2048)>>,
      <<WithMaxSize(MaximumMaxSize + 1)>>,
      <<WithMaxSize(5), WithDisableSizeLimit>>,
      <<WithDisableSizeLimit, WithMaxSize(5)>> }

\* strings with and without the characters the encoder escapes, each held
\* by a slice
RoundTripStrings ==
    { <<"a">>, <<"\"">>, <<"\\">>, <<"\n">>, <<"a", "\"", "b">> }
RoundTripValue(s) == GoSlice(<<GoString(s)>>)

\* the data Marshal(v) returns
MarshalData(v) == {r.data : r \in MarshalReturns(v, <<>>)}

\* the JSON texts given to Unmarshal: texts written by hand and the output
\* of Marshal
UnmarshalInputs ==
    UNION {MarshalData(RoundTripValue(s)) : s \in RoundTripStrings} \cup
    { <<>>, <<"1">>, <<"[">>, <<"[", "]">>, <<"{", "}">>,
      <<"[", "0", ",", "t", "r", "u", "e", "]">>,
      <<"{", "\"", "a", "\"", ":", "\"", "a", "\"", ",",
        "\"", "a", "\"", ":", "n", "u", "l", "l", "}">>,
      <<"{", "\"", "a", "\"", ":", "[", "-", "1", ".", "5", "]", "}">>,
      <<"[", "{", "]", "]">> }

\* the Go values given to Marshal and Encode
GoValues ==
    {RoundTripValue(s) : s \in RoundTripStrings} \cup
    { GoNil, GoChan, GoBool(TRUE), GoInt64(0), GoInt64(0 - 12),
      GoFloat64(Float64(15, 0 - 1)), GoFloat64(Float64(1, 6)),
      GoString(<<"a">>), GoString(<<"\"", "\\", "\n">>),
      GoSlice(<<>>), GoSlice(<<GoNil, GoBool(FALSE)>>), GoSlice(<<GoInt64(1), GoChan>>),
      GoMap([k \in {<<"a">>, <<"b">>} |-> GoString(k)]),
      GoMap([k \in {<<"a">>} |-> GoSlice(<<GoInt64(7)>>)]) }

ApiInit ==
    /\ api = [running |-> NoCall, last |-> NoCall, encoder |-> NoEncoder]
    /\ p = NewParser(NewLexer(<<>>))
    /\ stack = <<>>
    /\ ret = NoRet
    /\ result = NoResult
    /\ pc = "idle"
    /\ lex = NoLex
    /\ dec = NoDec
    /\ num = NoNum

\* Unmarshal(data, &v, opts...) up to the call of ParseJSON
Unmarshal ==
    /\ pc = "idle"
    /\ \E data \in UnmarshalInputs, opts \in OptionLists :
          IF applyOptions(opts).err # NilError
          THEN /\ api' = [api EXCEPT !.last =
                             [op |-> "Unmarshal", options |-> applyOptions(opts).options,
                              err |-> applyOptions(opts).err, stored |-> FALSE,
                              v |-> GoNil, data |-> data]]
               /\ UNCHANGED <<p, pc>>
          ELSE IF Len(data) > applyOptions(opts).options.MaxSize
          THEN /\ api' = [api EXCEPT !.last =
                             [op |-> "Unmarshal", options |-> applyOptions(opts).options,
                              err |-> Sprintf("input JSON size (%d bytes) exceeds maximum allowed size (%d bytes)",
                                              <<Dec(Len(data)),
                                                Dec(applyOptions(opts).options.MaxSize)>>),
                              stored |-> FALSE, v |-> GoNil, data |-> data]]
               /\ UNCHANGED <<p, pc>>
          ELSE /\ api' = [api EXCEPT !.last = NoCall,
                                     !.running =
                                        [op |-> "Unmarshal",
                                         options |-> applyOptions(opts).options,
                                         data |-> data]]
               /\ p' = NewParser(NewLexer(data))
               /\ pc' = "ready"
    /\ UNCHANGED <<stack, ret, result, lex, dec, num>>

\* Unmarshal from the return of ParseJSON on
UnmarshalReturn ==
    /\ pc = "done"
    /\ api.running.op = "Unmarshal"
    /\ \E r \in (IF result.err # NilError
                 THEN {[err |-> Sprintf("parse error: %v", <<Str(result.err)>>),
                        stored |-> FALSE, v |-> GoNil]}
                 ELSE IF Unmarshals(result.value)
                 THEN {[err |-> NilError, stored |-> TRUE,
                        v |-> Unmarshaled(result.value)]}
                 ELSE {[err |-> e, stored |-> FALSE, v |-> GoNil] :
                          e \in UnmarshalErrors(result.value)}) :
          api' = [api EXCEPT !.running = NoCall,
                             !.last = [op |-> "Unmarshal",
                                       options |-> api.running.options,
                                       err |-> r.err, stored |-> r.stored,
                                       v |-> r.v, data |-> api.running.data]]
    /\ pc' = "idle"
    /\ result' = NoResult
    /\ ret' = NoRet
    /\ UNCHANGED <<p, stack, lex, dec, num>>

\* data, err := Marshal(v, opts...)
Marshal ==
    /\ pc = "idle"
    /\ \E v \in GoValues, opts \in OptionLists :
          \E r \in MarshalReturns(v, opts) :
             api' = [api EXCEPT !.last =
                        Returned3("Marshal", applyOptions(opts).options, r)]
    /\ UNCHANGED <<p, stack, ret, result, pc, lex, dec, num>>

\* e, err := NewEncoder(w, opts...) over a writer that takes every write.
\* The encoder shares no state with Marshal and Unmarshal; the calls of
\* Encode come after it is made.
NewEncoder ==
    /\ pc = "idle"
    /\ \E opts \in OptionLists :
          IF applyOptions(opts).err # NilError
          THEN /\ api' = [api EXCEPT !.last =
                             [op |-> "NewEncoder", options |-> applyOptions(opts).options,
                              err |-> JSONError("invalid_options", "invalid encoder options",
                                                applyOptions(opts).err)]]
               /\ pc' = pc
          ELSE /\ api' = [api EXCEPT !.last =
                             [op |-> "NewEncoder", options |-> applyOptions(opts).options,
                              err |-> NilError],
                             !.encoder = [made |-> TRUE,
                                          options |-> applyOptions(opts).options,
                                          written |-> <<>>]]
               /\ pc' = "encoder"
    /\ UNCHANGED <<p, stack, ret, result, lex, dec, num>>

\* what e.Encode(v) returns and writes, given what Marshal(v) returned
Encoded(e, r) ==
    IF r.err # NilError
    THEN [err |-> JSONError("marshal_failure", "failed to marshal value for stream", r.err),
          written |-> <<>>]
    ELSE IF ~e.options.DisableSizeLimit /\ Len(r.data) > e.options.MaxSize
    THEN [err |-> JSONError("size_exceeded",
                            Sprintf("size %d exceeds limit %d",
                                    <<Dec(Len(r.data)), Dec(e.options.MaxSize)>>),
                            NilError),
          written |-> <<>>]
    ELSE [err |-> NilError, written |-> r.data \o <<"\n">>]

\* err := e.Encode(v)
Encode ==
    /\ pc = "encoder"
    /\ Len(api.encoder.written) < MaxWritten
    /\ \E v \in GoValues : \E r \in MarshalReturns(v, <<>>) :
          IF r.panic
          THEN api' = [api EXCEPT !.last =
                          [op |-> "Encode", options |-> api.encoder.options,
                           err |-> NilError, panic |-> TRUE]]
          ELSE api' = [api EXCEPT !.last =
                          [op |-> "Encode", options |-> api.encoder.options,
                           err |-> Encoded(api.encoder, r).err, panic |-> FALSE],
                          !.encoder.written = @ \o Encoded(api.encoder, r).written]
    /\ UNCHANGED <<p, stack, ret, result, pc, lex, dec, num>>

ApiNext ==
    \/ Unmarshal
    \/ ParseJSON
    \/ ParseJSONReturn
    \/ parseObject
    \/ parseObjectLoop
    \/ parseKeyValuePair
    \/ parseKeyValuePairReturn
    \/ parseArray
    \/ parseArrayLoop
    \/ parseValue
    \/ UnmarshalReturn
    \/ Marshal
    \/ NewEncoder
    \/ Encode

ApiSpec == ApiInit /\ [][ApiNext]_vars

\* an error that rejects data for its size
IsSizeError(err) ==
    \/ "format" \in DOMAIN err
          /\ err.format \in
                {"input JSON size (%d bytes) exceeds maximum allowed size (%d bytes)",
                 "marshaled JSON size (%d bytes) exceeds maximum allowed size (%d bytes)"}
    \/ "Code" \in DOMAIN err /\ err.Code = "size_exceeded"
    \/ "Code" \in DOMAIN err /\ "format" \in DOMAIN err.Cause
          /\ err.Cause.format =
                "marshaled JSON size (%d bytes) exceeds maximum allowed size (%d bytes)"

\* C21: when the DisableSizeLimit option is set, Unmarshal, Marshal and
\* Encode never reject data for its size, whatever MaxSize and the data
\* length are.
C21_DisabledLimitNeverRejects ==
    api.last.op \in {"Unmarshal", "Marshal", "Encode"}
       /\ api.last.options.DisableSizeLimit
    => ~IsSizeError(api.last.err)

\* the fields a Number marked invalid has
IsZeroedNumber(n) ==
    ~n.IsValid /\ ~n.IsInt /\ n.Int = 0 /\ n.Float = Float64(0, 0)

\* C31: for a lexically valid integer literal outside the int64 range the
\* Number has IsValid = false, IsInt = false, Int = 0 and Float = 0, be it
\* the node the parser builds or the one NewNumberLiteral builds from the
\* token; no parser error is recorded and the surrounding parse succeeds.
C31_OverflowingInteger ==
    Done /\ Input \in OverflowInputs =>
        /\ result.err = NilError
        /\ Errors(p) = <<>>
        /\ \E n \in NumberNodes(result.value) : n.Value \in OverflowingInts
        /\ \A n \in NumberNodes(result.value) :
              ParseIntFails(n.Value) =>
                 IsZeroedNumber(n) /\ IsZeroedNumber(NewNumberLiteral(n.Token))

\* a document with an integer beyond int64 has been parsed
C31_Witness ==
    /\ Done
    /\ result.err = NilError
    /\ \E n \in NumberNodes(result.value) :
          n.Value \in OverflowingInts /\ ParseIntFails(n.Value)

\* the start of token a comes before the start of token b
StartsBefore(a, b) ==
    a.Line < b.Line \/ (a.Line = b.Line /\ a.Column < b.Column)

\* Line never decreases, and the starts of the tokens other than EOF
\* strictly increase; a call that panicked returned no token
PositionsIncrease(toks) ==
    \A i \in 1..Len(toks) : \A j \in (i + 1)..Len(toks) :
        toks[i] # ZeroToken /\ toks[j] # ZeroToken =>
        /\ toks[i].Line <= toks[j].Line
        /\ toks[i].Type # TokenEOF /\ toks[j].Type # TokenEOF
              => StartsBefore(toks[i], toks[j])

\* C32: across successive NextToken calls on one Lexer, Line never
\* decreases and the (Line, Column) starts of the tokens other than EOF
\* strictly increase in lexicographic order.
C32_PositionsIncrease ==
    /\ PositionsIncrease(PlainToks)
    /\ PositionsIncrease(lex.fixedToks)
    /\ PositionsIncrease(lex.streamedToks)

\* the tokens other than EOF among toks
NonEof(toks) == SelectSeq(toks, LAMBDA t : t # ZeroToken /\ t.Type # TokenEOF)

\* each Lexer has returned tokens on two lines
C32_Witness ==
    /\ Len(NonEof(PlainToks)) >= 2
    /\ NonEof(PlainToks)[1].Line < NonEof(PlainToks)[2].Line
    /\ Len(NonEof(lex.fixedToks)) >= 2
    /\ Len(NonEof(lex.streamedToks)) >= 2
    /\ NonEof(lex.streamedToks)[1].Line < NonEof(lex.streamedToks)[2].Line

\* the input bytes a Lexer of lexer.go has not consumed yet: the current
\* byte and those after it
Unread(l) == IF l.position >= Len(l.input) THEN 0 ELSE Len(l.input) - l.position

\* the same for the Lexer of part_009, whose position stays where it is at
\* the end of the input, with the bytes its reader has not delivered yet
S_Unread(l) ==
    (IF l.ch = NUL THEN 0 ELSE 1) + (Len(l.input) - l.readPosition)
    + Len(l.reader.buf) + Len(Bytes(l.reader.reads))

\* a call that returned another token than EOF has consumed a byte
Consumed1(before, after, t) ==
    t # ZeroToken /\ t.Type # TokenEOF => after < before

\* among more calls than the input has bytes, one returned EOF
EofWithin(toks, bytes) ==
    Len(toks) > Len(bytes) /\ (\A i \in 1..Len(toks) : toks[i] # ZeroToken)
    => \E i \in 1..Len(toks) : toks[i].Type = TokenEOF

\* C33: every returned token other than EOF, ILLEGAL tokens included,
\* consumes at least one input byte, and after finitely many calls (at
\* most one more than the input has bytes) NextToken returns EOF.
C33_TokensConsume ==
    [][/\ PlainCalled =>
             /\ Consumed1(Unread(lex.plain), Unread(lex'.plain),
                          Last(lex'.plainCalls).t)
             /\ EofWithin([i \in 1..Len(lex'.plainCalls) |-> lex'.plainCalls[i].t],
                          lex.plain.input)
       /\ FixedCalled =>
             /\ Consumed1(S_Unread(lex.fixed), S_Unread(lex'.fixed),
                          Last(lex'.fixedToks))
             /\ EofWithin(lex'.fixedToks, Bytes(lex.source))
       /\ StreamedCalled =>
             /\ Consumed1(S_Unread(lex.streamed), S_Unread(lex'.streamed),
                          Last(lex'.streamedToks))
             /\ EofWithin(lex'.streamedToks, Bytes(lex.source))]_vars

\* each Lexer has returned an ILLEGAL token and, later, EOF
IllegalThenEof(toks) ==
    \E i \in 1..Len(toks) : \E j \in (i + 1)..Len(toks) :
        toks[i].Type = TokenIllegal /\ toks[j].Type = TokenEOF
C33_Witness ==
    /\ IllegalThenEof(PlainToks)
    /\ IllegalThenEof(lex.fixedToks)
    /\ IllegalThenEof(lex.streamedToks)

\* the step starts a parseObject or parseArray call, or a further round of
\* one of their loops
DescendsOrLoops ==
    \/ At("parseObject", "entry")
    \/ At("parseArray", "entry")
    \/ At("parseObject", "afterPair") /\ p.peekToken.Type = TokenComma
    \/ At("parseArray", "afterValue") /\ p.peekToken.Type = TokenComma

\* what is left to do without reading a token: the frames on the stack, a
\* parseValue call counting twice since it may hand over to parseObject or
\* parseArray, and the start of ParseJSON
RECURSIVE FramesWeight(_)
FramesWeight(st) ==
    IF st = <<>> THEN 0
    ELSE (IF Head(st).fn = "parseValue" THEN 2 ELSE 1) + FramesWeight(Tail(st))
Weight == (IF pc = "ready" THEN 4 ELSE 0) + FramesWeight(stack)

\* ParseJSON has not started, or the function on top of the stack is at a
\* place from which one of the steps goes on
CanStep ==
    \/ pc = "ready"
    \/ At("ParseJSON", "afterRoot")
    \/ At("parseObject", "entry") \/ At("parseObject", "afterPair")
    \/ At("parseKeyValuePair", "entry") \/ At("parseKeyValuePair", "afterValue")
    \/ At("parseArray", "entry") \/ At("parseArray", "afterValue")
    \/ At("parseValue", "entry")

\* C34: ParseJSON terminates on every finite input: every loop iteration
\* and every descent into parseObject/parseArray advances the token stream,
\* also after parseKeyValuePair or parseValue returned without consuming a
\* token; every other step leaves less to do without reading a token; and
\* the Lexer is never read further than three bytes past the input; until
\* ParseJSON has returned there is a step to take.
C34_ParseTerminates ==
    /\ [][/\ DescendsOrLoops =>
                /\ p'.currentToken \in {p.peekToken, nextToken(p).peekToken}
                /\ p'.lexer.readPosition > p.lexer.readPosition
          /\ \/ p'.lexer.readPosition > p.lexer.readPosition
             \/ p'.lexer = p.lexer /\ Weight' < Weight]_vars
    /\ [](p.lexer.readPosition <= Len(Input) + 3)
    /\ [](Done \/ CanStep)

\* ParseJSON has returned after a loop went on behind a pair that failed
\* without consuming a token
C34_Witness ==
    /\ Done
    /\ Len(Errors(p)) >= 2
    /\ Errors(p)[1].msg = Sprintf("expected string key, got %s", <<Str(TokenComma)>>)

\* C35: strings survive a Marshal/Unmarshal round trip: unmarshalling the
\* output of Marshal applied to a value holding s yields s again, also when
\* s contains a double quote, a backslash or a newline.
C35_StringRoundTrip ==
    \A s \in RoundTripStrings :
        /\ api.last.op = "Unmarshal"
        /\ api.last.options = defaultOptions
        /\ api.last.err.format \notin {"invalid option: %w", "invalid options: %w"}
        /\ api.last.data \in MarshalData(RoundTripValue(s))
        => /\ api.last.err = NilError
           /\ api.last.stored
           /\ api.last.v = RoundTripValue(s)

(***************************************************************************)
(* Goroutines that call Encode on one stream encoder at the same time.     *)
(* The encoder holds its mutex, its bufio.Writer (the bytes buffered and   *)
(* those handed to the underlying writer, which takes every write) and its *)
(* options; a goroutine is at a statement of Encode.  Every byte carries   *)
(* the goroutine that wrote it.                                            *)
(***************************************************************************)
Goroutines == 1..MaxGoroutines

\* the values the goroutines encode
EncodeValues ==
    { GoBool(TRUE), GoInt64(0), GoChan, GoSlice(<<GoInt64(1), GoNil>>),
      GoMap([k \in {<<"a">>, <<"b">>} |-> GoString(k)]) }

Tagged(data, g) == [i \in 1..Len(data) |-> [b |-> data[i], g |-> g]]

\* bufio.Writer.Write(data): while the data does not fit, it goes straight
\* to the underlying writer when nothing is buffered, else the buffer is
\* filled and flushed; what is left is buffered
RECURSIVE BufioWrite(_, _)
BufioWrite(w, data) ==
    IF Len(data) > WriterLen - Len(w.buf)
    THEN IF w.buf = <<>>
         THEN [w EXCEPT !.out = @ \o data]
         ELSE BufioWrite([w EXCEPT !.out = @ \o w.buf
                                        \o SubSeq(data, 1, WriterLen - Len(w.buf)),
                                   !.buf = <<>>],
                         SubSeq(data, WriterLen - Len(w.buf) + 1, Len(data)))
    ELSE [w EXCEPT !.buf = @ \o data]

\* bufio.Writer.Flush()
BufioFlush(w) == [w EXCEPT !.out = @ \o w.buf, !.buf = <<>>]

EncInit ==
    /\ \E vs \in [Goroutines -> EncodeValues] :
          api = [options |-> defaultOptions,
                 mutex |-> 0,
                 writer |-> [buf |-> <<>>, out |-> <<>>],
                 procs |-> [g \in Goroutines |->
                              [pc |-> "Encode", v |-> vs[g], data |-> <<>>,
                               err |-> NilError]]]
    /\ p = NewParser(NewLexer(<<>>))
    /\ stack = <<>>
    /\ ret = NoRet
    /\ result = NoResult
    /\ pc = "ready"
    /\ lex = NoLex
    /\ dec = NoDec
    /\ num = NoNum

\* e.mutex.Lock() without waiting for the mutex
EncodeLockAtOnce(g) ==
    /\ api.procs[g].pc = "Encode"
    /\ api' = [api EXCEPT !.mutex = g, !.procs[g].pc = "Marshal"]
    /\ UNCHANGED <<p, stack, ret, result, pc, lex, dec, num>>

\* e.mutex.Lock()
EncodeLock(g) ==
    /\ api.procs[g].pc = "Encode"
    /\ api.mutex = 0
    /\ api' = [api EXCEPT !.mutex = g, !.procs[g].pc = "Marshal"]
    /\ UNCHANGED <<p, stack, ret, result, pc, lex, dec, num>>

\* data, err = Marshal(v) and the two checks after it
EncodeMarshal(g) ==
    /\ api.procs[g].pc = "Marshal"
    /\ \E r \in MarshalReturns(api.procs[g].v, <<>>) :
          IF Encoded(api, r).err # NilError
          THEN api' = [api EXCEPT !.procs[g].err = Encoded(api, r).err,
                                  !.procs[g].pc = "Unlock"]
          ELSE api' = [api EXCEPT !.procs[g].data = r.data,
                                  !.procs[g].pc = "Write"]
    /\ UNCHANGED <<p, stack, ret, result, pc, lex, dec, num>>

\* e.writer.Write(data)
EncodeWrite(g) ==
    /\ api.procs[g].pc = "Write"
    /\ api' = [api EXCEPT !.writer = BufioWrite(@, Tagged(api.procs[g].data, g)),
                          !.procs[g].pc = "WriteByte"]
    /\ UNCHANGED <<p, stack, ret, result, pc, lex, dec, num>>

\* e.writer.WriteByte('\n')
EncodeWriteByte(g) ==
    /\ api.procs[g].pc = "WriteByte"
    /\ api' = [api EXCEPT !.writer = BufioWrite(@, Tagged(<<"\n">>, g)),
                          !.procs[g].pc = "Flush"]
    /\ UNCHANGED <<p, stack, ret, result, pc, lex, dec, num>>

\* return e.Flush()
EncodeFlush(g) ==
    /\ api.procs[g].pc = "Flush"
    /\ api' = [api EXCEPT !.writer = BufioFlush(@), !.procs[g].pc = "Unlock"]
    /\ UNCHANGED <<p, stack, ret, result, pc, lex, dec, num>>

\* the deferred e.mutex.Unlock()
EncodeUnlock(g) ==
    /\ api.procs[g].pc = "Unlock"
    /\ api' = [api EXCEPT !.mutex = 0, !.procs[g].pc = "returned"]
    /\ UNCHANGED <<p, stack, ret, result, pc, lex, dec, num>>

EncNext ==
    \E g \in Goroutines :
        \/ EncodeLock(g)
        \/ EncodeMarshal(g)
        \/ EncodeWrite(g)
        \/ EncodeWriteByte(g)
        \/ EncodeFlush(g)
        \/ EncodeUnlock(g)

EncSpec == EncInit /\ [][EncNext]_vars

\* the bytes written so far, flushed or not
Written == api.writer.out \o api.writer.buf

\* the bytes goroutine g has written, in the order they were written
WrittenBy(g) ==
    [i \in 1..Len(SelectSeq(Written, LAMBDA x : x.g = g)) |->
        SelectSeq(Written, LAMBDA x : x.g = g)[i].b]

\* the bytes of g lie next to each other
Contiguous(g) ==
    \A i \in 1..Len(Written) : \A j \in (i + 1)..Len(Written) :
        Written[i].g = g /\ Written[j].g = g =>
            \A k \in i..j : Written[k].g = g

\* C36: concurrent Encode calls on one stream encoder are serialized by
\* its mutex: the bytes of a call are never interleaved with those of
\* another call, and a call that has returned nil has its document and the
\* newline after it in the flushed output as one contiguous block.
C36_EncodeSerialized ==
    \A g \in Goroutines :
        /\ Contiguous(g)
        /\ api.procs[g].pc = "returned" /\ api.procs[g].err = NilError =>
              /\ WrittenBy(g) = api.procs[g].data \o <<"\n">>
              /\ \A i \in 1..Len(api.writer.buf) : api.writer.buf[i].g # g

\* all goroutines have returned nil, and one of them waited for the mutex
\* while another wrote
C36_Witness ==
    /\ \A g \in Goroutines :
          api.procs[g].pc = "returned" /\ api.procs[g].err = NilError
    /\ Len(api.writer.out) >= 2 * MaxGoroutines


\* the messages of addError that name the lookahead token
PeekMessages == {"expected }, got %s", "expected :, got %s", "expected ], got %s"}

\* the entries a step adds to Errors()
Recorded == SubSeq(Errors(p'), Len(Errors(p)) + 1, Len(Errors(p')))

\* C37: the Errors() list only grows: every parser step keeps the entries
\* recorded before as a prefix, unchanged, and each new entry reads
\* 'Line L, Column C: <message>' with L and C the line and the column of
\* the parser's current token when it is recorded, also when the message
\* names the lookahead token.
C37_ErrorsOnlyGrow ==
    [][/\ Len(Errors(p')) >= Len(Errors(p))
       /\ SubSeq(Errors(p'), 1, Len(Errors(p))) = Errors(p)
       /\ \A i \in DOMAIN Recorded :
            /\ DiagnosticText(Recorded[i]).format = "Line %d, Column %d: %s"
            /\ DiagnosticText(Recorded[i]).args =
                 <<Dec(p.currentToken.Line), Dec(p.currentToken.Column),
                   Str(Recorded[i].msg)>>
            /\ Recorded[i].msg.format \in PeekMessages =>
                 Recorded[i].msg.args = <<Str(p.peekToken.Type)>>]_vars

\* a second entry has been recorded, its message names the lookahead token
\* and its position is the current token's, which is not the lookahead's
C37_Witness ==
    /\ Len(Errors(p)) >= 2
    /\ LET e == Errors(p)[Len(Errors(p))]
       IN /\ e.msg.format \in PeekMessages
          /\ e.msg.args = <<Str(p.peekToken.Type)>>
          /\ <<e.Line, e.Column>> = <<p.currentToken.Line, p.currentToken.Column>>
          /\ <<e.Line, e.Column>> # <<p.peekToken.Line, p.peekToken.Column>>


\* the two errors ParseJSON builds itself
RootError == "expected { or [, got %s at line %d, column %d"
TrailingError == "unexpected token after main value: %s at line %d, column %d"

\* C38: when ParseJSON fails at the root check (the first token is neither
\* '{' nor '['), it consumes no token, currentToken and peekToken staying
\* as they were, and appends nothing to Errors(); the failure 'unexpected
\* token after main value' appends nothing to Errors() either.
C38_RootFailureLeavesParser ==
    /\ [][/\ pc = "ready" /\ pc' = "done" =>
               /\ result'.err.format = RootError
               /\ p'.currentToken = p.currentToken
               /\ p'.peekToken = p.peekToken
               /\ p'.lexer = p.lexer
               /\ Errors(p') = Errors(p)
          /\ pc' = "done" /\ result'.err.format = TrailingError =>
               Errors(p') = Errors(p)]_vars
    /\ [](Done /\ result.err.format = RootError =>
             /\ p = NewParser(NewLexer(Input))
             /\ Errors(p) = <<>>)

\* ParseJSON has failed at the root check with tokens left to read, and
\* the parser is as NewParser built it
C38_Witness ==
    /\ Done
    /\ result.err.format = RootError
    /\ result.value = NilValue
    /\ p.currentToken.Type \notin {TokenBraceOpen, TokenBracketOpen, TokenEOF}
    /\ p.peekToken.Type # TokenEOF
    /\ p = NewParser(NewLexer(Input))
    /\ Errors(p) = <<>>

\* ParseJSON has failed with 'unexpected token after main value' after an
\* error was recorded
TrailingAfterErrors ==
    Done /\ result.err.format = TrailingError /\ Errors(p) # <<>>


\* the numeric conversion of NewNumberLiteral fails on a text of the right
\* form: strconv.ParseInt or strconv.ParseFloat reports a value out of range
RangeFailure(lit) ==
    IF NumberScan(lit, 1, TRUE).isInt
    THEN /\ IsDigits(Unsigned(lit))
         /\ ParseIntFails(lit)
    ELSE /\ ~FloatSyntaxError(FloatParts(lit))
         /\ FloatRangeError(FloatParts(lit))

\* what the claim says of a token t a Lexer has returned
ScanPasses(t) ==
    t.Type = TokenNumber =>
        /\ NumberScan(t.Literal, 1, TRUE).ok
        /\ ~NewNumberLiteral(t).IsValid => RangeFailure(t.Literal)

PlainScanPasses ==
    \A i \in DOMAIN lex.plainCalls : ScanPasses(lex.plainCalls[i].t)
FixedScanPasses == \A i \in DOMAIN lex.fixedToks : ScanPasses(lex.fixedToks[i])
StreamedScanPasses ==
    \A i \in DOMAIN lex.streamedToks : ScanPasses(lex.streamedToks[i])

\* C39: every literal a Lexer emits as a NUMBER token passes the character
\* scan of NewNumberLiteral: for such a literal NewNumberLiteral returns an
\* invalid Number only when the numeric conversion fails on a value out of
\* the int64 or float64 range, never on a sign, dot or exponent check.
C39_NumberTokensPassScan ==
    PlainScanPasses /\ FixedScanPasses /\ StreamedScanPasses

====
